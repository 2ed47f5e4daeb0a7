---------------------------- MODULE MySqlProofs ----------------------------
(***************************************************************************)
(* Proofs about the MySQL wrapper: for any columns and any contents of the  *)
(* table, a call that returns TRUE gives its caller the table's rows, and   *)
(* no row is fetched through a pointer of before a resize.                  *)
(***************************************************************************)
EXTENDS MySqlClient, SequenceTheorems, TLAPS

-----------------------------------------------------------------------------
(* The inductive invariant                                                  *)

(* A column's MYSQL_BIND points at the beginning of its present buffer; a   *)
(* number's buffer is one cell, and only strings are ever resized.          *)
PointsAt(b, c) ==
  /\ b.of = size[c] /\ b.at = 0 /\ (c \in Strings => b.room = size[c])
  /\ c \notin Strings => size[c] = 1 /\ lengths[c] <= 1

PointersInv ==
  /\ pc \in {"idle", "bind"} => \A c \in Columns : lengths[c] = 0
  /\ pc \in {"execute"} \cup InLoop => \A c \in Columns : PointsAt(parameters[c], c)
  /\ pc \in InLoop => \A c \in Columns : PointsAt(bound[c], c)

(* The row fetched last has been read off the wire, but is not in results.  *)
InHand == pc = "refetched" \/ (pc = "fetched" /\ fetchStatus \in {"row", "truncated"})

(* What is in hand of column c is the beginning of the row's value.         *)
Holds(c) ==
  LET value == query.rows[row][c]
  IN  /\ nullFlags[c] = (value = Null)
      /\ value # Null /\ c \in Strings =>
           /\ lengths[c] = value
           /\ \A k \in 1 .. value : k <= size[c] => buffer[c][k] = Char(row, k)
      /\ value # Null /\ c \notin Strings => buffer[c][1] = value

InHandInv ==
  /\ pc = "refetched" => fetchStatus = "truncated"
  /\ InHand => row \in 1 .. Len(query.rows) /\ \A c \in Columns : Holds(c)
  /\ InHand /\ (pc = "refetched" \/ fetchStatus = "row") =>
       \A c \in Strings : nullFlags[c] \/ lengths[c] <= size[c]

(* The caller has the rows fetched before, and the rest is still unread.    *)
Taken == [i \in 1 .. (IF InHand THEN row - 1 ELSE row) |-> Tuple(query, i)]

RowsInv ==
  /\ pc \in {"bind", "execute"} => results = <<>>
  /\ pc \in InLoop => results = Taken /\ unread + row = Len(query.rows)
  /\ pc = "fetched" /\ fetchStatus = "nodata" => unread = 0
  /\ pc = "return" => results = Wanted[query]
  /\ pc \in {"execute", "return"} \cup InLoop => query.fieldCount # 0
  /\ answer = None => query # NoStatement

ClientInv == ClientTypeOK /\ PointersInv /\ InHandInv /\ RowsInv /\ InSync

-----------------------------------------------------------------------------

LEMMA StatementRows ==
  ASSUME NEW s \in Statements
  PROVE  /\ s.rows \in Seq([Columns -> Value]) /\ Len(s.rows) \in Nat
         /\ DOMAIN s.rows = 1 .. Len(s.rows)
         /\ \A r \in 1 .. Len(s.rows), c \in Columns : s.rows[r][c] \in Value
         /\ s.fieldCount \in Nat
<1>1. s.rows \in Seq([Columns -> Value]) /\ s.fieldCount \in Nat
  BY ClientAssumption
<1>2. Len(s.rows) \in Nat /\ DOMAIN s.rows = 1 .. Len(s.rows)
  BY <1>1, LenProperties
<1>3. \A r \in 1 .. Len(s.rows) : s.rows[r] \in [Columns -> Value]
  BY <1>1, ElementOfSeq
<1> QED
  BY <1>1, <1>2, <1>3

(* The first rows, as a sequence.                                           *)
LEMMA FirstRows ==
  ASSUME NEW s, NEW n \in Nat
  PROVE  LET rows(k) == [i \in 1 .. k |-> Tuple(s, i)]
         IN  /\ rows(n) \in Seq({Tuple(s, i) : i \in Nat}) /\ Len(rows(n)) = n
             /\ Append(rows(n), Tuple(s, n + 1)) = rows(n + 1)
             /\ rows(0) = <<>>
<1> DEFINE rows(k) == [i \in 1 .. k |-> Tuple(s, i)]
           T == {Tuple(s, i) : i \in Nat}
<1> HIDE DEF T
<1>1. \A i \in Nat : Tuple(s, i) \in T
  BY DEF T
<1>2. ASSUME NEW k \in Nat PROVE rows(k) \in Seq(T) /\ Len(rows(k)) = k
  <2>1. rows(k) \in [1 .. k -> T]
    BY <1>1
  <2> QED
    BY <2>1, SeqDef, LenProperties
<1>3. Append(rows(n), Tuple(s, n + 1)) = rows(n + 1)
  <2>1. Tuple(s, n + 1) \in T /\ n + 1 \in Nat
    BY <1>1
  <2> DEFINE longer == Append(rows(n), Tuple(s, n + 1))
  <2>2. /\ longer \in Seq(T) /\ Len(longer) = n + 1
        /\ \A i \in 1 .. n : longer[i] = rows(n)[i]
        /\ longer[n + 1] = Tuple(s, n + 1)
    BY <1>2, <2>1, AppendProperties
  <2>3. \A i \in 1 .. n + 1 : longer[i] = rows(n + 1)[i]
    BY <2>2
  <2> HIDE DEF longer, rows
  <2>4. longer = rows(n + 1)
    BY <1>2, <2>1, <2>2, <2>3, SeqEqual
  <2> QED
    BY <2>4 DEF longer
<1>4. rows(0) = <<>>
  OBVIOUS
<1> QED
  BY <1>2, <1>3, <1>4 DEF T

-----------------------------------------------------------------------------
(* One lemma per step                                                       *)

LEMMA InitClientInv == ClientInit => ClientInv
<1> SUFFICES ASSUME ClientInit PROVE ClientInv
  OBVIOUS
<1>1. None \notin BOOLEAN
  BY ClientAssumption
<1>2. \A c \in Columns : Unbound \in [of : Nat, at : Nat, room : Nat] /\ DOMAIN <<>> = 1 .. 0
  BY DEF Unbound, Bind
<1>3. ClientTypeOK
  BY <1>1, <1>2 DEF ClientInit, ClientTypeOK, InLoop
<1> QED
  BY <1>1, <1>3 DEF ClientInit, ClientInv, PointersInv, InHandInv, InHand, RowsInv, InSync, InLoop

(* Between calls: nothing is in memory, and nothing unread.                 *)
LEMMA OutsideStep ==
  ASSUME ClientInv,
         Connect \/ LoseConnection \/ CallGarbage
           \/ \E s \in Statements : RunQuery(s) \/ RunCommand(s)
  PROVE  ClientInv'
<1> USE DEF ClientInv, ClientTypeOK, PointersInv, InHandInv, InHand, RowsInv, InSync, InLoop,
            memory
<1>1. CASE Connect \/ LoseConnection
  <2>1. UNCHANGED <<unread, pc, call, memory, fetchStatus, row>>
    BY <1>1 DEF Connect, LoseConnection
  <2>2. conn' \in {"unset", "up", "lost", "garbage"}
    BY <1>1 DEF Connect, LoseConnection
  <2>3. ClientTypeOK'
    BY <2>1, <2>2 DEF call
  <2>4. PointersInv' /\ InHandInv'
    BY <2>1 DEF call, PointsAt, Holds
  <2>5. RowsInv' /\ InSync'
    BY <2>1 DEF call, Taken
  <2> QED
    BY <2>3, <2>4, <2>5
<1>2. CASE CallGarbage
  BY <1>2 DEF CallGarbage, call
<1>3. ASSUME NEW s \in Statements, RunQuery(s) PROVE ClientInv'
  <2>1. s # NoStatement /\ None \notin BOOLEAN
    BY ClientAssumption
  <2>2. CASE Ready /\ pc' = "bind" /\ answer' = None
    BY <1>3, <2>1, <2>2 DEF RunQuery, Ready
  <2>3. CASE answer' = FALSE /\ UNCHANGED pc
    BY <1>3, <2>1, <2>3 DEF RunQuery
  <2> QED
    BY <1>3, <2>2, <2>3 DEF RunQuery
<1>4. ASSUME NEW s \in Statements, RunCommand(s) PROVE ClientInv'
  <2>1. s # NoStatement /\ None \notin BOOLEAN
    BY ClientAssumption
  <2> QED
    BY <1>4, <2>1 DEF RunCommand
<1> QED
  BY <1>1, <1>2, <1>3, <1>4

LEMMA BindStep ==
  ASSUME ClientInv, BindOutputs
  PROVE  ClientInv'
<1> USE DEF ClientInv, ClientTypeOK, PointersInv, InHandInv, InHand, RowsInv, InSync, InLoop,
            memory, call
<1>1. CASE Throw /\ UNCHANGED memory
  BY <1>1 DEF BindOutputs, Throw
<1>2. CASE ~WrongKind /\ pc' = "execute" /\ UNCHANGED <<bound, lengths, nullFlags>>
           /\ size' = [c \in Columns |-> SetSize(c)]
           /\ buffer' = [c \in Columns |-> [k \in 1 .. SetSize(c) |-> Nul]]
           /\ parameters' = [c \in Columns |-> SetParameter(c)]
  <2>1. FirstSize \in Nat /\ \A c : SetSize(c) \in Nat
    BY ClientAssumption DEF SetSize
  <2>2. ASSUME NEW c \in Columns
        PROVE  /\ parameters'[c] = SetParameter(c) /\ size'[c] = SetSize(c)
               /\ DOMAIN buffer'[c] = 1 .. SetSize(c)
    BY <1>2 DEF BindOutputs
  <2>3. \A c \in Columns : SetParameter(c) \in [of : Nat, at : Nat, room : Nat]
    BY <2>1 DEF SetParameter, Bind
  <2>4. /\ pc = "bind" /\ pc' = "execute" /\ UNCHANGED <<bound, lengths, nullFlags>>
        /\ UNCHANGED <<conn, unread, query, results, answer, applied, fetchStatus, row>>
        /\ query.fieldCount # 0 /\ query.fieldCount = Cardinality(Columns)
    BY <1>2 DEF BindOutputs, WrongKind
  <2>5. size' \in [Columns -> Nat] /\ DOMAIN buffer' = Columns
    BY <1>2, <2>1 DEF BindOutputs
  <2>6. parameters' \in [Columns -> [of : Nat, at : Nat, room : Nat]]
    BY <1>2, <2>3 DEF BindOutputs
  <2>7. ClientTypeOK'
    BY <2>2, <2>4, <2>5, <2>6
  <2>8. \A c \in Columns : PointsAt(parameters[c], c)'
    <3>1. \A c \in Columns : lengths'[c] = 0
      BY <2>4
    <3>2. \A c : /\ SetParameter(c).of = SetSize(c) /\ SetParameter(c).at = 0
                 /\ c \in Strings => SetParameter(c).room = SetSize(c)
                 /\ c \notin Strings => SetSize(c) = 1
      BY DEF SetParameter, SetSize, Bind
    <3> QED
      BY <2>2, <3>1, <3>2 DEF PointsAt
  <2>9. PointersInv' /\ InHandInv'
    BY <2>4, <2>8
  <2> QED
    BY <2>4, <2>7, <2>9
<1> QED
  BY <1>1, <1>2 DEF BindOutputs

LEMMA ExecuteStep ==
  ASSUME ClientInv, BindAndExecute
  PROVE  ClientInv'
<1> USE DEF ClientInv, ClientTypeOK, PointersInv, InHandInv, InHand, RowsInv, InSync, InLoop
<1>1. /\ bound' \in {bound, parameters} /\ row' = 0 /\ pc = "execute"
      /\ UNCHANGED <<conn, query, results, answer, applied, size, buffer, parameters, lengths,
                     nullFlags, fetchStatus>>
  BY DEF BindAndExecute, call
<1>2. query \in Statements /\ results = <<>> /\ unread = 0
  BY <1>1
<1>3. ASSUME bound' = parameters, NEW c \in Columns
      PROVE  PointsAt(parameters[c], c)' /\ PointsAt(bound[c], c)'
  BY <1>1, <1>3 DEF PointsAt
<1>4. CASE bound' = parameters /\ pc' = "fetch" /\ unread' = Len(query.rows)
  <2>1. Taken' = <<>> /\ Len(query.rows) \in Nat
    BY <1>1, <1>2, <1>4, FirstRows, StatementRows DEF Taken
  <2>2. ClientTypeOK'
    BY <1>1, <1>2, <1>4, <2>1
  <2> QED
    BY <1>1, <1>2, <1>3, <1>4, <2>1, <2>2
<1>5. CASE pc' = "throw" /\ UNCHANGED unread
  BY <1>1, <1>5
<1> QED
  BY <1>4, <1>5 DEF BindAndExecute, Throw

LEMMA FetchErrorStep ==
  ASSUME ClientInv, CheckFetchError
  PROVE  ClientInv'
<1> USE DEF ClientInv, ClientTypeOK, PointersInv, InHandInv, InHand, RowsInv, InSync, InLoop
<1>1. /\ pc = "fetched" /\ fetchStatus \notin {"row", "truncated"}
      /\ (fetchStatus = "nodata" /\ pc' = "return") \/ pc' \in {"throw", "crashed"}
      /\ UNCHANGED <<conn, unread, query, results, answer, applied, size, buffer, parameters,
                     bound, lengths, nullFlags, fetchStatus, row>>
  BY DEF CheckFetchError, FetchEnds, Throw, call, memory
<1>2. query \in Statements
  BY <1>1
<1>3. ASSUME fetchStatus = "nodata" PROVE results = Wanted[query]
  <2>1. row = Len(query.rows)
    BY <1>1, <1>2, <1>3, StatementRows
  <2> QED
    BY <1>1, <1>2, <1>3, <2>1, StatementRows DEF Taken, Wanted
<1> QED
  BY <1>1, <1>3

LEMMA ReturnStep ==
  ASSUME ClientInv, Return
  PROVE  ClientInv'
<1> USE DEF ClientInv, ClientTypeOK, PointersInv, InHandInv, InHand, RowsInv, InSync, InLoop
<1>1. None \notin BOOLEAN /\ Unbound \in [of : Nat, at : Nat, room : Nat]
  BY ClientAssumption DEF Unbound, Bind
<1>2. /\ size' \in [Columns -> Nat] /\ DOMAIN buffer' = Columns
      /\ \A c \in Columns : DOMAIN buffer'[c] = 1 .. size'[c]
  <2>1. DOMAIN <<>> = 1 .. 0
    OBVIOUS
  <2> QED
    BY <2>1 DEF Return
<1>3. /\ parameters' \in [Columns -> [of : Nat, at : Nat, room : Nat]]
      /\ bound' \in [Columns -> [of : Nat, at : Nat, room : Nat]]
  BY <1>1 DEF Return
<1>4. ClientTypeOK'
  BY <1>1, <1>2, <1>3 DEF Return
<1> QED
  BY <1>4 DEF Return

-----------------------------------------------------------------------------
(* Fetching                                                                 *)

(* What the library copies: at most as much as there is room for.           *)
LEMMA CopiedBytes ==
  ASSUME NEW bytes, NEW n \in Nat, DOMAIN bytes = 1 .. n, NEW at \in Nat, NEW room \in Nat,
         NEW r, NEW offset \in Int, NEW count \in Nat
  PROVE  LET new == Copied(bytes, at, room, r, offset, count)
         IN  /\ DOMAIN new = 1 .. n
             /\ \A k \in 1 .. n : k <= at => new[k] = bytes[k]
             /\ \A k \in 1 .. n : k > at /\ k <= at + count /\ k <= at + room =>
                  new[k] = Char(r, offset + k - at)
<1> DEFINE new == Copied(bytes, at, room, r, offset, count)
<1>1. DOMAIN new = 1 .. n
  BY DEF Copied
<1>2. \A k \in 1 .. n : k <= at => new[k] = bytes[k]
  BY DEF Copied, AtMost
<1>3. \A k \in 1 .. n : k > at /\ k <= at + count /\ k <= at + room =>
                         new[k] = Char(r, offset + k - at)
  BY DEF Copied, AtMost
<1> QED
  BY <1>1, <1>2, <1>3

(* A row is in hand when the library has fetched it, as far as it fits.     *)
LEMMA FetchRowStep ==
  ASSUME ClientInv, Fetch, unread > 0, FetchRow
  PROVE  ClientInv'
<1> DEFINE r == row + 1
           value(c) == query.rows[r][c]
<1>1. /\ pc = "fetch" /\ pc' = "fetched" /\ ~InHand /\ InHand'
      /\ UNCHANGED <<conn, query, results, answer, applied, size, parameters, bound>>
      /\ query \in Statements /\ unread \in Nat /\ row \in Nat
      /\ unread + row = Len(query.rows) /\ results = Taken
      /\ row' = r /\ unread' = unread - 1 /\ fetchStatus' \in {"row", "truncated"}
  BY DEF Fetch, FetchRow, call, ClientInv, ClientTypeOK, InLoop, RowsInv, InHand
<1>2. Len(query.rows) \in Nat /\ r \in 1 .. Len(query.rows)
  BY <1>1, StatementRows
<1>3. /\ nullFlags' = [c \in Columns |-> value(c) = Null]
      /\ lengths' = [c \in Columns |-> IF value(c) = Null THEN lengths[c]
                                       ELSE IF c \in Strings THEN value(c) ELSE 1]
      /\ buffer' = [c \in Columns |-> FetchedBytes(c, r, value(c))]
      /\ fetchStatus' = IF \E c \in Columns : Truncates(c, value(c)) THEN "truncated" ELSE "row"
  BY DEF FetchRow
<1> HIDE DEF r
<1>4. \A c \in Columns : value(c) \in Nat \cup {Null}
  BY <1>1, <1>2, StatementRows DEF Value
<1>5. \A c \in Columns : /\ PointsAt(bound[c], c) /\ Live(c)
                         /\ size[c] \in Nat /\ DOMAIN buffer[c] = 1 .. size[c]
                         /\ bound[c].room \in Nat /\ lengths[c] \in Nat
  BY <1>1 DEF ClientInv, ClientTypeOK, PointersInv, InLoop, PointsAt, Live
<1> HIDE DEF value
<1>6. ASSUME NEW c \in Columns
      PROVE  /\ DOMAIN buffer'[c] = 1 .. size[c]
             /\ value(c) # Null /\ c \in Strings =>
                  \A k \in 1 .. value(c) : k <= size[c] => buffer'[c][k] = Char(r, k)
             /\ value(c) # Null /\ c \notin Strings => buffer'[c][1] = value(c)
  <2>1. buffer'[c] = FetchedBytes(c, r, value(c))
    BY <1>3
  <2>2. CASE value(c) = Null
    BY <1>5, <2>1, <2>2 DEF FetchedBytes
  <2>3. CASE value(c) # Null /\ c \in Strings
    <3>1. buffer'[c] = Copied(buffer[c], 0, size[c], r, 0, value(c))
      BY <1>5, <2>1, <2>3 DEF FetchedBytes, PointsAt
    <3>2. value(c) \in Nat
      BY <1>4, <2>3
    <3>3. /\ DOMAIN buffer'[c] = 1 .. size[c]
          /\ \A k \in 1 .. size[c] : k > 0 /\ k <= 0 + value(c) /\ k <= 0 + size[c] =>
                 buffer'[c][k] = Char(r, 0 + k - 0)
      BY <1>5, <3>1, <3>2, CopiedBytes
    <3> QED
      BY <1>5, <2>3, <3>2, <3>3
  <2>4. CASE value(c) # Null /\ c \notin Strings
    <3>1. buffer'[c] = [k \in 1 .. size[c] |-> value(c)] /\ size[c] = 1
      BY <1>5, <2>1, <2>4 DEF FetchedBytes, PointsAt
    <3> QED
      BY <2>4, <3>1
  <2> QED
    BY <2>2, <2>3, <2>4
<1>7. ASSUME NEW c \in Columns PROVE Holds(c)'
  <2>1. query'.rows[row'][c] = value(c)
    BY <1>1 DEF value
  <2>2. nullFlags'[c] = (value(c) = Null)
    BY <1>3
  <2>3. value(c) # Null /\ c \in Strings => lengths'[c] = value(c)
    BY <1>3
  <2> QED
    BY <1>1, <1>6, <2>1, <2>2, <2>3 DEF Holds
<1>8. ASSUME fetchStatus' = "row", NEW c \in Strings
      PROVE  nullFlags'[c] \/ lengths'[c] <= size'[c]
  <2>1. c \in Columns /\ ~Truncates(c, value(c))
    BY <1>3, <1>8, ClientAssumption
  <2>2. value(c) = Null \/ ~(value(c) > size[c])
    BY <1>5, <1>8, <2>1 DEF Truncates, PointsAt
  <2>3. CASE value(c) = Null
    <3>1. nullFlags'[c] = (value(c) = Null)
      BY <1>3, <2>1
    <3> QED
      BY <2>3, <3>1
  <2>4. CASE value(c) # Null
    <3>1. lengths'[c] = value(c) /\ value(c) \in Nat /\ size'[c] = size[c] /\ size[c] \in Nat
      BY <1>1, <1>3, <1>4, <1>5, <1>8, <2>1, <2>4
    <3> QED
      BY <2>2, <2>4, <3>1
  <2> QED
    BY <2>3, <2>4
<1>9. \A c \in Columns : lengths'[c] \in Nat /\ (c \notin Strings => lengths'[c] <= 1)
  BY <1>3, <1>4, <1>5 DEF PointsAt
<1>10. \A c \in Columns : PointsAt(parameters[c], c)' /\ PointsAt(bound[c], c)'
  BY <1>1, <1>9 DEF ClientInv, PointersInv, InLoop, PointsAt
<1>11. ClientTypeOK'
  <2>1. lengths' \in [Columns -> Nat] /\ nullFlags' \in [Columns -> BOOLEAN]
    BY <1>3, <1>9
  <2>2. DOMAIN buffer' = Columns
    BY <1>3
  <2> QED
    BY <1>1, <1>2, <1>6, <2>1, <2>2 DEF ClientInv, ClientTypeOK, InLoop
<1>12. RowsInv'
  <2>1. Taken' = Taken /\ unread' + row' = Len(query'.rows)
    BY <1>1 DEF Taken, r
  <2> QED
    BY <1>1, <2>1 DEF ClientInv, RowsInv, InLoop
<1> QED
  BY <1>1, <1>2, <1>7, <1>8, <1>10, <1>11, <1>12
     DEF ClientInv, PointersInv, InHandInv, InSync, InLoop

LEMMA FetchStep ==
  ASSUME ClientInv, Fetch
  PROVE  ClientInv'
<1>1. CASE unread > 0 /\ FetchRow
  BY <1>1, FetchRowStep
<1>2. CASE /\ \/ unread = 0 /\ fetchStatus' = "nodata"
              \/ fetchStatus' \in {"error", "unknown"}
           /\ UNCHANGED <<unread, row, buffer, lengths, nullFlags>>
  <2>1. /\ pc = "fetch" /\ pc' = "fetched" /\ ~InHand /\ ~InHand'
        /\ UNCHANGED <<conn, query, results, answer, applied, size, parameters, bound>>
    BY <1>2 DEF Fetch, call, InHand
  <2>2. Taken' = Taken
    BY <1>2, <2>1 DEF Taken
  <2>3. \A c \in Columns : PointsAt(parameters[c], c)' /\ PointsAt(bound[c], c)'
    BY <1>2, <2>1 DEF ClientInv, PointersInv, InLoop, PointsAt
  <2>4. ClientTypeOK'
    BY <1>2, <2>1 DEF ClientInv, ClientTypeOK, InLoop
  <2> QED
    BY <1>2, <2>1, <2>2, <2>3, <2>4
       DEF ClientInv, PointersInv, InHandInv, RowsInv, InSync, InLoop
<1> QED
  BY <1>1, <1>2 DEF Fetch, FetchStmt

(* A string that did not fit is whole after the rest has been fetched       *)
(* behind the part that had: from where the buffer ended, into where it     *)
(* ended, and as much as the buffer has grown by, less one.                 *)
LEMMA RefetchedIsWhole ==
  ASSUME ClientInv, pc = "fetched", fetchStatus = "truncated",
         NEW c \in Columns, c \in TruncatedColumns
  PROVE  /\ c \in Strings /\ DOMAIN Refetched(c) = 1 .. lengths[c] + 1
         /\ ~nullFlags[c] => \A k \in 1 .. lengths[c] : Refetched(c)[k] = Char(row, k)
<1>1. /\ size[c] \in Nat /\ lengths[c] \in Nat /\ lengths[c] > size[c]
      /\ DOMAIN buffer[c] = 1 .. size[c] /\ nullFlags[c] \in BOOLEAN
  BY DEF ClientInv, ClientTypeOK, TruncatedColumns
<1>2. c \in Strings
  BY <1>1 DEF ClientInv, PointersInv, InLoop, PointsAt
<1> DEFINE old == [k \in 1 .. lengths[c] + 1 |-> IF k <= size[c] THEN buffer[c][k] ELSE Nul]
           room == lengths[c] - size[c]
<1>3. room \in Nat /\ lengths[c] + 1 \in Nat /\ DOMAIN old = 1 .. lengths[c] + 1
  BY <1>1
<1>4. Refetched(c) = Copied(old, size[c], room, row, size[c], room)
  BY DEF Refetched
<1>5. \A k \in 1 .. size[c] : old[k] = buffer[c][k]
  BY <1>1
<1> HIDE DEF old, room
<1>6. /\ DOMAIN Refetched(c) = 1 .. lengths[c] + 1
      /\ \A k \in 1 .. lengths[c] + 1 : k <= size[c] => Refetched(c)[k] = old[k]
      /\ \A k \in 1 .. lengths[c] + 1 : k > size[c] /\ k <= size[c] + room =>
             Refetched(c)[k] = Char(row, size[c] + k - size[c])
  BY <1>1, <1>3, <1>4, CopiedBytes
<1>7. ASSUME ~nullFlags[c], NEW k \in 1 .. lengths[c]
      PROVE  Refetched(c)[k] = Char(row, k)
  <2>1. CASE k <= size[c]
    <3>1. Holds(c)
      BY DEF ClientInv, InHandInv, InHand
    <3>2. query.rows[row][c] # Null
      BY <1>7, <3>1 DEF Holds
    <3>3. buffer[c][k] = Char(row, k)
      BY <1>2, <1>7, <2>1, <3>1, <3>2 DEF Holds
    <3> QED
      BY <1>1, <1>5, <1>6, <1>7, <2>1, <3>3
  <2>2. CASE ~(k <= size[c])
    <3>1. k > size[c] /\ k <= size[c] + room /\ size[c] + k - size[c] = k
      BY <1>1, <1>7, <2>2 DEF room
    <3>2. k \in 1 .. lengths[c] + 1
      BY <1>1, <1>7
    <3> QED
      BY <1>6, <3>1, <3>2
  <2> QED
    BY <2>1, <2>2
<1> QED
  BY <1>2, <1>6, <1>7

(* The library refuses a column or the second bind.                         *)
LEMMA RefetchThrows ==
  ASSUME ClientInv, Refetch, Throw, UNCHANGED memory
  PROVE  ClientInv'
<1>1. /\ pc = "fetched" /\ pc' = "throw"
      /\ UNCHANGED <<conn, unread, query, results, answer, applied, size, buffer, parameters,
                     bound, lengths, nullFlags, fetchStatus, row>>
  BY DEF Refetch, Throw, call, memory
<1> QED
  BY <1>1 DEF ClientInv, ClientTypeOK, PointersInv, InHandInv, InHand, RowsInv, InSync, InLoop

LEMMA RefetchedStep ==
  ASSUME ClientInv, Refetch, pc' = "refetched", Regrow, UNCHANGED <<lengths, nullFlags>>,
         bound' = IF TruncatedColumns = {} THEN bound ELSE parameters'
  PROVE  ClientInv'
<1>1. /\ pc = "fetched" /\ fetchStatus = "truncated" /\ pc' = "refetched" /\ InHand /\ InHand'
      /\ UNCHANGED <<conn, unread, query, results, answer, applied, lengths, nullFlags,
                     fetchStatus, row>>
      /\ row \in 1 .. Len(query.rows) /\ \A c \in Columns : Holds(c)
  BY DEF Refetch, call, InHand, ClientInv, InHandInv
<1>2. \A c \in Columns : /\ size[c] \in Nat /\ lengths[c] \in Nat
                         /\ DOMAIN buffer[c] = 1 .. size[c]
                         /\ PointsAt(parameters[c], c) /\ PointsAt(bound[c], c)
                         /\ c \in TruncatedColumns <=> lengths[c] > size[c]
  BY <1>1 DEF ClientInv, ClientTypeOK, PointersInv, InLoop, TruncatedColumns
<1>3. ASSUME NEW c \in Columns, c \in TruncatedColumns
      PROVE  /\ c \in Strings /\ size'[c] = lengths[c] + 1
             /\ buffer'[c] = Refetched(c)
             /\ parameters'[c] = Bind(lengths[c] + 1, 0, lengths[c] + 1)
             /\ bound'[c] = parameters'[c]
  <2>1. c \in Strings
    BY <1>1, <1>3, RefetchedIsWhole
  <2> QED
    BY <1>3, <2>1 DEF Regrow
<1>4. ASSUME NEW c \in Columns, c \notin TruncatedColumns
      PROVE  /\ size'[c] = size[c] /\ buffer'[c] = buffer[c]
             /\ parameters'[c] = parameters[c] /\ bound'[c] \in {bound[c], parameters[c]}
  BY <1>4 DEF Regrow
<1>5. \A c \in Columns : PointsAt(parameters[c], c)' /\ PointsAt(bound[c], c)'
  <2>1. ASSUME NEW c \in Columns, c \in TruncatedColumns
        PROVE  PointsAt(parameters[c], c)' /\ PointsAt(bound[c], c)'
    <3> DEFINE b == Bind(lengths[c] + 1, 0, lengths[c] + 1)
    <3>1. b.of = lengths[c] + 1 /\ b.at = 0 /\ b.room = lengths[c] + 1
      BY DEF Bind
    <3>2. c \in Strings /\ parameters'[c] = b /\ bound'[c] = b /\ size'[c] = lengths[c] + 1
      BY <1>3, <2>1
    <3> HIDE DEF b
    <3> QED
      BY <3>1, <3>2 DEF PointsAt
  <2>2. ASSUME NEW c \in Columns, c \notin TruncatedColumns
        PROVE  PointsAt(parameters[c], c)' /\ PointsAt(bound[c], c)'
    BY <1>1, <1>2, <1>4, <2>2 DEF PointsAt
  <2> QED
    BY <2>1, <2>2
<1>6. ASSUME NEW c \in Columns PROVE DOMAIN buffer'[c] = 1 .. size'[c] /\ size'[c] \in Nat
  <2>1. CASE c \in TruncatedColumns
    BY <1>1, <1>2, <1>3, <2>1, RefetchedIsWhole
  <2>2. CASE c \notin TruncatedColumns
    BY <1>2, <1>4, <2>2
  <2> QED
    BY <2>1, <2>2
<1>7. ASSUME NEW c \in Columns PROVE Holds(c)' /\ lengths'[c] <= size'[c]
  <2>1. CASE c \in TruncatedColumns
    <3>1. /\ buffer'[c] = Refetched(c)
          /\ ~nullFlags[c] => \A k \in 1 .. lengths[c] : Refetched(c)[k] = Char(row, k)
      BY <1>1, <1>3, <2>1, RefetchedIsWhole
    <3>2. Holds(c) /\ c \in Strings
      BY <1>1, <1>3, <2>1
    <3>3. Holds(c)'
      BY <1>1, <3>1, <3>2 DEF Holds
    <3> QED
      BY <1>1, <1>2, <1>3, <2>1, <3>3
  <2>2. CASE c \notin TruncatedColumns
    <3>1. Holds(c)'
      BY <1>1, <1>4, <2>2 DEF Holds
    <3>2. size'[c] = size[c] /\ ~(lengths[c] > size[c])
      BY <1>2, <1>4, <2>2
    <3> QED
      BY <1>1, <1>2, <3>1, <3>2
  <2> QED
    BY <2>1, <2>2
<1>8. ClientTypeOK'
  <2>1. size' \in [Columns -> Nat] /\ DOMAIN buffer' = Columns
    <3>1. size' = [c \in Columns |-> size'[c]] /\ DOMAIN buffer' = Columns
      BY DEF Regrow
    <3> QED
      BY <1>6, <3>1
  <2>2. /\ parameters' \in [Columns -> [of : Nat, at : Nat, room : Nat]]
        /\ bound' \in [Columns -> [of : Nat, at : Nat, room : Nat]]
    <3>1. \A c \in Columns : Bind(lengths[c] + 1, 0, lengths[c] + 1) \in [of : Nat, at : Nat, room : Nat]
      BY <1>2 DEF Bind
    <3>2. parameters' \in [Columns -> [of : Nat, at : Nat, room : Nat]]
      BY <3>1 DEF Regrow, ClientInv, ClientTypeOK
    <3> QED
      BY <3>2 DEF ClientInv, ClientTypeOK
  <2> QED
    BY <1>1, <1>6, <2>1, <2>2 DEF ClientInv, ClientTypeOK, InLoop
<1>9. RowsInv'
  <2>1. Taken' = Taken
    BY <1>1 DEF Taken
  <2> QED
    BY <1>1, <2>1 DEF ClientInv, RowsInv, InLoop
<1>10. InHandInv'
  <2>1. \A c \in Strings : lengths'[c] <= size'[c]
    BY <1>7, ClientAssumption
  <2> QED
    BY <1>1, <1>7, <2>1 DEF InHandInv, InHand
<1> QED
  BY <1>1, <1>5, <1>8, <1>9, <1>10 DEF ClientInv, PointersInv, InSync, InLoop

LEMMA RefetchStep == ASSUME ClientInv, Refetch PROVE ClientInv'
<1> QED
  BY RefetchThrows, RefetchedStep DEF Refetch

(* setResults reads back the row of the table.                              *)
LEMMA ReadBackIsTheRow ==
  ASSUME ClientInv, SetResult, NEW c \in Columns
  PROVE  ReadBack(c) = Tuple(query, row)[c]
<1>1. /\ InHand /\ (pc = "refetched" \/ fetchStatus = "row") /\ Holds(c)
      /\ row \in 1 .. Len(query.rows)
      /\ query \in Statements
      /\ size[c] \in Nat
  BY DEF SetResult, ClientInv, ClientTypeOK, InLoop, InHandInv, InHand
<1> DEFINE value == query.rows[row][c]
<1>2. value \in Nat \cup {Null}
  BY <1>1, StatementRows DEF Value
<1>3. CASE value = Null
  BY <1>1, <1>3 DEF Holds, ReadBack, Tuple
<1>4. CASE value # Null /\ c \in Strings
  <2>1. lengths[c] = value /\ lengths[c] <= size[c] /\ ~nullFlags[c] /\ value \in Nat
    BY <1>1, <1>2, <1>4 DEF Holds, ClientInv, InHandInv
  <2>2. \A k \in 1 .. value : k <= size[c] /\ buffer[c][k] = Char(row, k)
    BY <1>1, <1>4, <2>1 DEF Holds
  <2> QED
    BY <1>4, <2>1, <2>2 DEF ReadBack, Tuple
<1>5. CASE value # Null /\ c \notin Strings
  BY <1>1, <1>5 DEF Holds, ReadBack, Tuple
<1> QED
  BY <1>3, <1>4, <1>5

(* A row in hand is the next one the caller gets.                           *)
LEMMA NextRow ==
  ASSUME ClientInv, SetResult
  PROVE  /\ query \in Statements /\ row \in 1 .. Len(query.rows) /\ results = Taken
         /\ Len(results) = row - 1
         /\ [c \in Columns |-> ReadBack(c)] = Tuple(query, row)
         /\ Append(results, Tuple(query, row)) = [i \in 1 .. row |-> Tuple(query, i)]
<1>1. /\ InHand /\ row \in 1 .. Len(query.rows) /\ results = Taken /\ query \in Statements
  BY DEF SetResult, ClientInv, ClientTypeOK, InLoop, InHandInv, InHand, RowsInv
<1>2. row - 1 \in Nat /\ (row - 1) + 1 = row
  BY <1>1, StatementRows
<1>3. Len(results) = row - 1
  BY <1>1, <1>2, FirstRows DEF Taken
<1>4. [c \in Columns |-> ReadBack(c)] = Tuple(query, row)
  BY ReadBackIsTheRow DEF Tuple
<1>5. Append(results, Tuple(query, row)) = [i \in 1 .. row |-> Tuple(query, i)]
  <2>1. results = [i \in 1 .. (row - 1) |-> Tuple(query, i)]
    BY <1>1 DEF Taken
  <2> QED
    BY <1>2, <2>1, FirstRows
<1> QED
  BY <1>1, <1>3, <1>4, <1>5

LEMMA SetResultStep ==
  ASSUME ClientInv, SetResult
  PROVE  ClientInv'
<1>1. /\ pc \in {"fetched", "refetched"}
      /\ UNCHANGED <<conn, unread, query, answer, applied, size, buffer, parameters, bound,
                     lengths, nullFlags, fetchStatus, row>>
  BY DEF SetResult, memory
<1>2. CASE pc' = "throw" /\ UNCHANGED results
  BY <1>1, <1>2 DEF ClientInv, ClientTypeOK, PointersInv, InHandInv, InHand, RowsInv, InSync,
                    InLoop
<1>3. CASE pc' = "fetch" /\ results' = Append(results, [c \in Columns |-> ReadBack(c)])
  <2>1. ~InHand' /\ row' = row
    BY <1>1, <1>3 DEF InHand
  <2>2. results' = [i \in 1 .. row |-> Tuple(query, i)]
    BY <1>3, NextRow
  <2>3. results' = Taken'
    BY <1>1, <2>1, <2>2 DEF Taken
  <2>4. \A c \in Columns : PointsAt(parameters[c], c)' /\ PointsAt(bound[c], c)'
    BY <1>1 DEF ClientInv, PointersInv, InLoop, PointsAt
  <2>5. ClientTypeOK'
    BY <1>1, <1>3 DEF ClientInv, ClientTypeOK, InLoop
  <2> QED
    BY <1>1, <1>3, <2>1, <2>3, <2>4, <2>5
       DEF ClientInv, PointersInv, InHandInv, RowsInv, InSync, InLoop
<1> QED
  BY <1>2, <1>3 DEF SetResult, Throw

LEMMA ClientInvStep ==
  ASSUME ClientInv, [ClientNext]_clientVars
  PROVE  ClientInv'
<1>1. CASE UNCHANGED clientVars
  <2>1. ClientTypeOK'
    <3>1. ClientTypeOK /\ UNCHANGED <<conn, unread, pc, query, answer, applied>>
          /\ UNCHANGED <<size, buffer, parameters, bound, lengths, nullFlags, fetchStatus, row>>
      BY <1>1 DEF clientVars, call, memory, ClientInv
    <3>2. DOMAIN buffer' = Columns /\ \A c \in Columns : DOMAIN buffer'[c] = 1 .. size'[c]
      BY <3>1 DEF ClientTypeOK
    <3>3. /\ parameters' \in [Columns -> [of : Nat, at : Nat, room : Nat]]
          /\ bound' \in [Columns -> [of : Nat, at : Nat, room : Nat]]
      BY <3>1 DEF ClientTypeOK
    <3>4. /\ conn' \in {"unset", "up", "lost", "garbage"}
          /\ pc' \in {"idle", "bind", "execute", "return", "throw", "crashed"} \cup InLoop
          /\ query' \in Statements \cup {NoStatement}
          /\ query' = NoStatement => pc' \in {"idle", "crashed"}
          /\ pc' \in {"execute"} \cup InLoop => query'.fieldCount = Cardinality(Columns)
          /\ answer' \in {None, TRUE, FALSE}
          /\ pc' = "idle" => answer' # None
          /\ pc' \notin {"idle", "crashed"} => answer' = None
          /\ applied' \in {0, 1}
      BY <3>1 DEF ClientTypeOK
    <3>5. /\ unread' \in Nat /\ row' \in Nat
          /\ size' \in [Columns -> Nat]
          /\ lengths' \in [Columns -> Nat] /\ nullFlags' \in [Columns -> BOOLEAN]
          /\ fetchStatus' \in {"row", "truncated", "nodata", "error", "unknown"}
      BY <3>1 DEF ClientTypeOK
    <3> QED
      BY <3>2, <3>3, <3>4, <3>5 DEF ClientTypeOK, InLoop
  <2> USE <1>1 DEF clientVars, call, memory, ClientInv
  <2>5. InSync'
    BY DEF InSync, InLoop
  <2>2. PointersInv'
    BY DEF PointersInv, PointsAt, InLoop
  <2>3. InHandInv'
    BY DEF InHandInv, InHand, Holds
  <2>4. RowsInv'
    <3>1. Taken' = Taken
      BY DEF Taken, InHand
    <3> QED
      BY <3>1 DEF RowsInv, InLoop
  <2> QED
    BY <2>1, <2>2, <2>3, <2>4, <2>5
<1>2. CASE Steps
  BY <1>2, BindStep, ExecuteStep, FetchStep, RefetchStep, SetResultStep, FetchErrorStep,
     ReturnStep DEF Steps
<1> QED
  BY <1>1, <1>2, OutsideStep DEF ClientNext

-----------------------------------------------------------------------------
(* Where in a call which part of the state is alive; in particular no       *)
(* statement whose columns are not the tuple's is ever executed.            *)
THEOREM ClientTypesHold == ClientSpec => []ClientTypeOK
<1>1. ClientInv => ClientTypeOK
  BY DEF ClientInv
<1> QED
  BY <1>1, InitClientInv, ClientInvStep, PTL DEF ClientSpec

(* However often strings have been resized, the library writes a row to the *)
(* buffers that are read afterwards, at their beginning and not past their  *)
(* end.                                                                     *)
THEOREM FetchesHitLiveBuffers == ClientSpec => []BoundIsLive
<1>1. ClientInv => BoundIsLive
  BY DEF ClientInv, PointersInv, PointsAt, InLoop, BoundIsLive, Live
<1> QED
  BY <1>1, InitClientInv, ClientInvStep, PTL DEF ClientSpec

(* Whichever call of the library fails, on a connection that works or one    *)
(* that is lost, the next statement finds no rows of this one on the wire.  *)
THEOREM CallsStayInSync == ClientSpec => []InSync
<1>1. ClientInv => InSync
  BY DEF ClientInv
<1> QED
  BY <1>1, InitClientInv, ClientInvStep, PTL DEF ClientSpec

-----------------------------------------------------------------------------
(* A statement is a call                                                    *)

LEMMA WantedRows ==
  ASSUME NEW s \in Statements
  PROVE  /\ Wanted[s] = [i \in 1 .. Len(s.rows) |-> Tuple(s, i)]
         /\ Len(Wanted[s]) = Len(s.rows) /\ Len(s.rows) \in Nat
<1>1. Wanted[s] = [i \in 1 .. Len(s.rows) |-> Tuple(s, i)] /\ Len(s.rows) \in Nat
  BY StatementRows DEF Wanted
<1> QED
  BY <1>1, FirstRows

LEMMA SendIsSend ==
  ASSUME ClientInv, NEW s \in Statements, RunQuery(s) \/ RunCommand(s)
  PROVE  Call!Send
<1>1. answer # None
  BY DEF RunQuery, RunCommand, ClientInv, ClientTypeOK
<1>2. CASE RunQuery(s)
  BY <1>1, <1>2 DEF RunQuery, Call!Send, Call!Running
<1>3. CASE RunCommand(s)
  <2>1. CASE IsCommand(s) /\ applied' \in {0, 1} /\ (answer' = FALSE \/ (answer' = TRUE /\ applied' = 1))
    BY <1>1, <1>3, <2>1 DEF RunCommand, IsCommand, Commands, Call!Send, Call!Running
  <2>2. CASE applied' = 0 /\ answer' = FALSE
    BY <1>1, <1>3, <2>2 DEF RunCommand, Call!Send, Call!Running
  <2> QED
    BY <1>3, <2>1, <2>2 DEF RunCommand
<1> QED
  BY <1>2, <1>3

LEMMA SetResultTakesRow ==
  ASSUME ClientInv, SetResult
  PROVE  Call!TakeRow \/ UNCHANGED Call!callVars
<1>1. UNCHANGED <<query, answer, applied>> /\ answer = None
  BY DEF SetResult, ClientInv, ClientTypeOK
<1>2. CASE UNCHANGED results
  BY <1>1, <1>2 DEF Call!callVars
<1>3. CASE results' = Append(results, [c \in Columns |-> ReadBack(c)])
  <2>1. Len(results) < Len(Wanted[query]) /\ Wanted[query][Len(results) + 1] = Tuple(query, row)
    <3>1. /\ query \in Statements /\ row \in 1 .. Len(query.rows) /\ Len(query.rows) \in Nat
          /\ Len(results) = row - 1
      BY NextRow, StatementRows
    <3>2. /\ Wanted[query] = [i \in 1 .. Len(query.rows) |-> Tuple(query, i)]
          /\ Len(Wanted[query]) = Len(query.rows)
      BY <3>1, WantedRows
    <3>3. Len(results) < Len(query.rows) /\ Len(results) + 1 = row
      BY <3>1
    <3> QED
      BY <3>1, <3>2, <3>3
  <2>2. results' = Append(results, Wanted[query][Len(results) + 1])
    BY <1>3, <2>1, NextRow
  <2> QED
    BY <1>1, <2>1, <2>2 DEF Call!TakeRow, Call!Running
<1> QED
  BY <1>2, <1>3 DEF SetResult

LEMMA ReturnFinishes ==
  ASSUME ClientInv, Return
  PROVE  Call!Finish
<1>1. answer = None /\ UNCHANGED <<query, results, applied>> /\ answer' = (pc = "return")
  BY DEF Return, ClientInv, ClientTypeOK
<1>2. pc = "return" => query \notin Commands /\ results = Wanted[query]
  BY DEF ClientInv, RowsInv, Commands
<1>3. answer' \in BOOLEAN /\ (answer' => pc = "return")
  BY <1>1
<1> QED
  BY <1>1, <1>2, <1>3 DEF Call!Finish, Call!Running

LEMMA CallStep ==
  ASSUME ClientInv, [ClientNext]_clientVars
  PROVE  [Call!CallNext]_Call!callVars
<1>1. CASE \E s \in Statements : RunQuery(s) \/ RunCommand(s)
  BY <1>1, SendIsSend DEF Call!CallNext
<1>2. CASE SetResult
  BY <1>2, SetResultTakesRow DEF Call!CallNext
<1>3. CASE Return
  BY <1>3, ReturnFinishes DEF Call!CallNext
<1>4. CASE \/ Connect \/ LoseConnection \/ CallGarbage \/ BindOutputs \/ BindAndExecute
           \/ Fetch \/ Refetch \/ CheckFetchError
  BY <1>4 DEF Connect, LoseConnection, CallGarbage, BindOutputs, BindAndExecute, Fetch,
    Refetch, CheckFetchError, call, Call!callVars
<1>5. CASE UNCHANGED clientVars
  BY <1>5 DEF clientVars, call, Call!callVars
<1> QED
  BY <1>1, <1>2, <1>3, <1>4, <1>5 DEF ClientNext, Steps

(* One statement, one answer, and with TRUE the rows of the table: strings  *)
(* of any length whole, although each is fetched into what the row before   *)
(* has left, in two parts, through pointers that move.                      *)
THEOREM StatementsAreCalls == ClientSpec => ImplementsCall
<1>1. ClientInit => Call!CallInit
  BY DEF ClientInit, Call!CallInit
<1>2. ClientInv /\ [ClientNext]_clientVars => [Call!CallNext]_Call!callVars
  BY CallStep
<1> QED
  BY <1>1, <1>2, InitClientInv, ClientInvStep, PTL DEF ClientSpec, ImplementsCall, Call!CallSpec

-----------------------------------------------------------------------------
(* The end of a call                                                        *)

(* Nobody calls before the connection has been made.                        *)
ConnInv == conn = "unset" => pc = "idle"

LEMMA ConnStep == ConnInv /\ [ClientNext]_clientVars => ConnInv'
BY DEF Ready, FetchEnds, ConnInv, ClientNext, Steps, Connect, LoseConnection, CallGarbage, RunQuery, RunCommand,
       BindOutputs, BindAndExecute, Fetch, Refetch, SetResult, CheckFetchError, Return,
       clientVars

(* Where a call is, and what it has ahead of it.                            *)
LEMMA CallNumbers ==
  ASSUME ClientInv, ConnInv, answer = None
  PROVE  /\ conn # "unset" /\ query \in Statements /\ Len(query.rows) \in Nat
         /\ pc \in {"bind", "execute", "return", "throw", "crashed"} \cup InLoop
         /\ pc \in InLoop => RowsLeft \in Nat /\ RowsLeft = unread
<1>1. /\ pc \in {"bind", "execute", "return", "throw", "crashed"} \cup InLoop
      /\ query \in Statements /\ row \in Nat /\ unread \in Nat
  BY DEF ClientInv, ClientTypeOK, RowsInv
<1>2. Len(query.rows) \in Nat
  BY <1>1, StatementRows
<1>3. pc \in InLoop => unread + row = Len(query.rows)
  BY DEF ClientInv, RowsInv
<1> QED
  BY <1>1, <1>2, <1>3 DEF RowsLeft, ConnInv, InLoop

(* What StepsLeft says, one value of pc at a time.                          *)
Wire(c) == IF c = "up" THEN 1 ELSE 0

Ahead(p, status, all, rest) ==
  CASE p = "bind"      -> 3 * all + 5
    [] p = "execute"   -> 3 * all + 4
    [] p = "fetch"     -> 3 * rest + 3
    [] p = "fetched"   -> IF status \in {"row", "truncated"} THEN 3 * rest + 5 ELSE 2
    [] p = "refetched" -> 3 * rest + 4
    [] p \in {"return", "throw"} -> 1
    [] OTHER           -> 0

LEMMA Countdown ==
  ASSUME NEW status, NEW all, NEW rest
  PROVE  /\ Ahead("bind", status, all, rest) = 3 * all + 5
         /\ Ahead("execute", status, all, rest) = 3 * all + 4
         /\ Ahead("fetch", status, all, rest) = 3 * rest + 3
         /\ status \in {"row", "truncated"} => Ahead("fetched", status, all, rest) = 3 * rest + 5
         /\ status \notin {"row", "truncated"} => Ahead("fetched", status, all, rest) = 2
         /\ Ahead("refetched", status, all, rest) = 3 * rest + 4
         /\ Ahead("return", status, all, rest) = 1 /\ Ahead("throw", status, all, rest) = 1
         /\ Ahead("idle", status, all, rest) = 0
         /\ Ahead("crashed", status, all, rest) = 0
BY DEF Ahead

LEMMA StepsCounted ==
  /\ StepsLeft = Wire(conn) + Ahead(pc, fetchStatus, Len(query.rows), RowsLeft)
  /\ StepsLeft' = Wire(conn') + Ahead(pc', fetchStatus', Len(query'.rows), RowsLeft')
BY DEF StepsLeft, Wire, Ahead

Nearer == 0 <= StepsLeft' /\ StepsLeft' < StepsLeft

LEMMA FewerAhead ==
  ASSUME NEW w \in {0, 1}, NEW a \in Nat, NEW b \in Nat, b < a,
         StepsLeft = w + a, StepsLeft' = w + b
  PROVE  Nearer
<1> SUFFICES 0 <= w + b /\ w + b < w + a
  BY DEF Nearer
<1> QED
  OBVIOUS

LEMMA StepAdvances ==
  ASSUME ClientInv, ConnInv, answer = None, ClientNext
  PROVE  Nearer
<1>0. Wire(conn) \in {0, 1} /\ conn # "unset" /\ Len(query.rows) \in Nat
      /\ pc \in {"bind", "execute", "return", "throw", "crashed"} \cup InLoop
      /\ (pc \in InLoop => RowsLeft \in Nat /\ RowsLeft = unread)
  BY CallNumbers DEF Wire
<1>1. CASE BindOutputs
  <2>1. /\ pc = "bind" /\ pc' \in {"throw", "execute"} /\ UNCHANGED <<conn, query>>
    BY <1>1 DEF BindOutputs, Throw, call
  <2>2. StepsLeft = Wire(conn) + (3 * Len(query.rows) + 5)
    BY <2>1, StepsCounted, Countdown
  <2>3. \/ StepsLeft' = Wire(conn) + 1
        \/ StepsLeft' = Wire(conn) + (3 * Len(query.rows) + 4)
    BY <2>1, StepsCounted, Countdown
  <2> QED
    BY <1>0, <2>2, <2>3, FewerAhead
<1>2. CASE BindAndExecute
  <2>1. /\ pc = "execute" /\ pc' \in {"throw", "fetch"} /\ row' = 0 /\ UNCHANGED <<conn, query>>
    BY <1>2 DEF BindAndExecute, Throw, call
  <2>2. RowsLeft' = Len(query.rows)
    BY <1>0, <2>1 DEF RowsLeft
  <2>3. StepsLeft = Wire(conn) + (3 * Len(query.rows) + 4)
    BY <2>1, StepsCounted, Countdown
  <2>4. \/ StepsLeft' = Wire(conn) + 1
        \/ StepsLeft' = Wire(conn) + (3 * Len(query.rows) + 3)
    BY <2>1, <2>2, StepsCounted, Countdown
  <2> QED
    BY <1>0, <2>3, <2>4, FewerAhead
<1>3. CASE Fetch
  <2>1. pc = "fetch" /\ pc' = "fetched" /\ UNCHANGED <<conn, query>>
    BY <1>3 DEF Fetch, call
  <2>2. CASE unread > 0 /\ FetchRow
    <3>1. row' = row + 1 /\ fetchStatus' \in {"row", "truncated"}
      BY <2>2 DEF FetchRow
    <3>2. row \in Nat /\ RowsLeft > 0
      BY <1>0, <2>1, <2>2 DEF ClientInv, ClientTypeOK, InLoop
    <3>3. RowsLeft' = RowsLeft - 1
      BY <1>0, <2>1, <3>1, <3>2 DEF RowsLeft
    <3>4. /\ StepsLeft = Wire(conn) + (3 * RowsLeft + 3)
          /\ StepsLeft' = Wire(conn) + (3 * RowsLeft' + 5)
      BY <2>1, <3>1, StepsCounted, Countdown
    <3>5. RowsLeft \in Nat
      BY <1>0, <2>1 DEF InLoop
    <3>6. /\ 3 * RowsLeft' + 5 \in Nat /\ 3 * RowsLeft + 3 \in Nat
          /\ 3 * RowsLeft' + 5 < 3 * RowsLeft + 3
      BY <3>2, <3>3, <3>5
    <3> QED
      BY <1>0, <3>4, <3>6, FewerAhead
  <2>3. CASE fetchStatus' \in {"nodata", "error", "unknown"}
    <3>1. StepsLeft = Wire(conn) + (3 * RowsLeft + 3) /\ StepsLeft' = Wire(conn) + 2
      BY <2>1, <2>3, StepsCounted, Countdown
    <3>2. 3 * RowsLeft + 3 \in Nat /\ 2 < 3 * RowsLeft + 3
      BY <1>0, <2>1 DEF InLoop
    <3> QED
      BY <1>0, <3>1, <3>2, FewerAhead
  <2> QED
    BY <1>3, <2>2, <2>3 DEF Fetch, FetchStmt
<1>4. CASE Refetch \/ SetResult
  <2>1. /\ (pc = "fetched" /\ fetchStatus \in {"row", "truncated"}) \/ pc = "refetched"
        /\ pc' = "refetched" => pc = "fetched"
        /\ pc' \in {"refetched", "throw", "fetch"}
        /\ UNCHANGED <<conn, query, row>>
    BY <1>4 DEF Refetch, SetResult, Throw, call
  <2>2. RowsLeft' = RowsLeft /\ pc \in InLoop
    BY <2>1 DEF RowsLeft, InLoop
  <2>3. RowsLeft \in Nat
    BY <1>0, <2>2
  <2>4. CASE pc = "fetched"
    <3>1. StepsLeft = Wire(conn) + (3 * RowsLeft + 5)
      BY <2>1, <2>4, StepsCounted, Countdown
    <3>2. \/ StepsLeft' = Wire(conn) + (3 * RowsLeft + 4)
          \/ StepsLeft' = Wire(conn) + 1
          \/ StepsLeft' = Wire(conn) + (3 * RowsLeft + 3)
      BY <2>1, <2>2, StepsCounted, Countdown
    <3> QED
      BY <1>0, <2>3, <3>1, <3>2, FewerAhead
  <2>5. CASE pc = "refetched"
    <3>1. StepsLeft = Wire(conn) + (3 * RowsLeft + 4)
      BY <2>5, StepsCounted, Countdown
    <3>2. \/ StepsLeft' = Wire(conn) + 1
          \/ StepsLeft' = Wire(conn) + (3 * RowsLeft + 3)
      BY <2>1, <2>2, <2>5, StepsCounted, Countdown
    <3> QED
      BY <1>0, <2>3, <3>1, <3>2, FewerAhead
  <2> QED
    BY <2>1, <2>4, <2>5
<1>5. CASE CheckFetchError \/ Return
  <2>1. /\ UNCHANGED conn
        /\ \/ /\ pc = "fetched" /\ fetchStatus \notin {"row", "truncated"}
              /\ pc' \in {"return", "throw", "crashed"}
           \/ pc \in {"return", "throw"} /\ pc' = "idle"
    BY <1>5 DEF CheckFetchError, FetchEnds, Throw, Return
  <2>2. \/ StepsLeft = Wire(conn) + 2 /\ StepsLeft' = Wire(conn) + 1
        \/ StepsLeft = Wire(conn) + 2 /\ StepsLeft' = Wire(conn) + 0
        \/ StepsLeft = Wire(conn) + 1 /\ StepsLeft' = Wire(conn) + 0
    BY <2>1, StepsCounted, Countdown
  <2> QED
    BY <1>0, <2>2, FewerAhead
<1>6. CASE LoseConnection
  <2>1. conn = "up" /\ conn' = "lost" /\ UNCHANGED <<pc, query, row, fetchStatus>>
    BY <1>6 DEF LoseConnection, call
  <2>2. RowsLeft' = RowsLeft
    BY <2>1 DEF RowsLeft
  <2> DEFINE ahead == Ahead(pc, fetchStatus, Len(query.rows), RowsLeft)
  <2>3. StepsLeft = Wire(conn) + ahead /\ StepsLeft' = Wire(conn') + ahead
    BY <2>1, <2>2, StepsCounted
  <2>4. Wire(conn) = 1 /\ Wire(conn') = 0
    BY <2>1 DEF Wire
  <2>5. ahead \in Nat
    <3>1. CASE pc \in {"bind", "execute", "return", "throw", "crashed"}
      BY <1>0, <3>1 DEF Ahead
    <3>2. CASE pc \in InLoop
      <4>1. RowsLeft \in Nat
        BY <1>0, <3>2
      <4> QED
        BY <3>2, <4>1 DEF InLoop, Ahead
    <3> QED
      BY <1>0, <3>1, <3>2
  <2> HIDE DEF ahead
  <2> QED
    BY <2>3, <2>4, <2>5 DEF Nearer
<1>7. ~(Connect \/ CallGarbage \/ \E s \in Statements : RunQuery(s) \/ RunCommand(s))
  <2>1. pc # "idle"
    BY <1>0 DEF InLoop
  <2> QED
    BY <1>0, <2>1 DEF Connect, CallGarbage, RunQuery, RunCommand
<1> QED
  BY <1>1, <1>2, <1>3, <1>4, <1>5, <1>6, <1>7 DEF ClientNext, Steps

(* Whichever call of the library fails, and wherever the connection is lost, *)
(* every step of a call brings its end nearer: no failure takes the loop     *)
(* over the rows round once more.                                           *)
THEOREM CallsComeToAnEnd == ClientSpec => CallsAdvance
<1>1. ClientInit => ConnInv
  BY DEF ClientInit, ConnInv
<1>2. ClientInv /\ ConnInv /\ [ClientNext]_clientVars => [answer = None => Nearer]_clientVars
  BY StepAdvances
<1> QED
  BY <1>1, <1>2, ConnStep, InitClientInv, ClientInvStep, PTL
     DEF ClientSpec, CallsAdvance, Nearer
=============================================================================
