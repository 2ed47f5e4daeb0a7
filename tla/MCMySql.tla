------------------------------ MODULE MCMySql ------------------------------
(* Small instances of the MySQL wrapper for TLC.                            *)
EXTENDS MySqlClient

CONSTANTS name, addr, number

(* Rows whose strings are empty, fit the first buffer of two bytes, fill it, *)
(* are one and two bytes longer, or are NULL, and numbers of either half,   *)
(* the upper one in a row where nothing else is truncated.                  *)
MCRows ==
  {[name |-> 1, addr |-> 2, number |-> 1], [name |-> 3, addr |-> 0, number |-> 0],
   [name |-> 4, addr |-> 3, number |-> 1], [name |-> 2, addr |-> Null, number |-> 3],
   [name |-> Null, addr |-> 1, number |-> 0]}

MCRow(m) ==
  [c \in Columns |-> CASE c = name -> m.name [] c = addr -> m.addr [] c = number -> m.number]

MCTables(n) ==
  UNION {[1 .. k -> {MCRow(m) : m \in MCRows}] : k \in 0 .. n}

Statement(rows, fields, params, accepted) ==
  [rows |-> rows, fieldCount |-> fields, parameterCount |-> params, accepted |-> accepted]

MCStatements ==
  {Statement(t, 3, 0, TRUE) : t \in MCTables(3)}
    \cup {Statement(<<>>, 0, 0, TRUE),   \* a command
          Statement(<<>>, 0, 0, FALSE),  \* one the schema refuses
          Statement(<<>>, 2, 0, TRUE),   \* too few columns
          Statement(<<>>, 3, 1, TRUE)}   \* a "?" nobody fills
=============================================================================
