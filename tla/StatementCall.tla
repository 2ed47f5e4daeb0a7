--------------------------- MODULE StatementCall ---------------------------
(***************************************************************************)
(* What DBHelper_Base promises the handlers: one SQL statement at a time,   *)
(* sent once, with an answer.  TRUE means that every row that was selected  *)
(* is in the result vector, or that the command has taken effect; FALSE     *)
(* means nothing: a first part of the rows may be there, and the command    *)
(* may have taken effect.  SharedDB.Select and SharedDB.RunCommand are      *)
(* these two sentences said of sets of rows.                                *)
(***************************************************************************)
EXTENDS Naturals, Sequences

CONSTANTS
  Statements,  \* what callers send
  Commands,    \* those that select nothing
  Wanted,      \* per statement, the rows it selects as the caller is to see them
  NoStatement,
  None         \* no answer yet

VARIABLES
  statement,  \* the one that is running, or the last one
  got,        \* the rows in the caller's vector
  applied,    \* how often the database has carried the command out
  verdict     \* TRUE, FALSE or None

callVars == <<statement, got, applied, verdict>>

CallInit ==
  statement = NoStatement /\ got = <<>> /\ applied = 0 /\ verdict = FALSE

Running == verdict = None

(* A statement may be answered with FALSE at once.                          *)
Send ==
  /\ ~Running
  /\ statement' \in Statements /\ got' = <<>>
  /\ \/ applied' = 0 /\ verdict' \in {None, FALSE}
     \/ statement' \in Commands /\ applied' = 1 /\ verdict' \in BOOLEAN

TakeRow ==
  /\ Running /\ Len(got) < Len(Wanted[statement])
  /\ got' = Append(got, Wanted[statement][Len(got) + 1])
  /\ UNCHANGED <<statement, applied, verdict>>

Finish ==
  /\ Running
  /\ verdict' \in BOOLEAN
  /\ verdict' => statement \notin Commands /\ got = Wanted[statement]
  /\ UNCHANGED <<statement, got, applied>>

CallNext == Send \/ TakeRow \/ Finish

CallSpec == CallInit /\ [][CallNext]_callVars
=============================================================================
