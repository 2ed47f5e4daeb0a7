---------------------------- MODULE ConfigStore ----------------------------
(***************************************************************************)
(* What nginx.sh keeps: a place for one configuration file.  A client asks  *)
(* for a configuration to be used; one that passes the test takes the place *)
(* of the old one, any other changes nothing, and the answer says which.    *)
(* nginx runs with what was there at the last reload that it accepted.      *)
(*                                                                         *)
(* Nothing is promised while the store is disturbed: from the moment a      *)
(* script is cut off, loses its server, meets another or has a command      *)
(* fail, until one script has run alone from its beginning to its end.      *)
(***************************************************************************)
CONSTANTS
  Configs,  \* configurations clients send
  Good,     \* those nginx accepts
  Passing,  \* those that pass the script's test: the good ones, and others
  NoFile,   \* there is no such file
  NoConfig  \* nobody has asked

VARIABLES
  active,   \* the file in use, or NoFile: a set of configurations, one unless disturbed
  asked,    \* the configuration being tested
  answer,   \* the last answer, <<>> or a pair of configuration and verdict
  running,  \* what nginx runs with, NoFile when it does not run
  disturbed

storeVars == <<active, asked, answer, running, disturbed>>

Contents(file) == IF file = NoFile THEN {} ELSE file

Valid(file) == Contents(file) \subseteq Good

StoreInit ==
  /\ active \in {NoFile} \cup {{c} : c \in Good}
  /\ asked = NoConfig /\ answer = <<>>
  /\ running = Contents(active)
  /\ disturbed = FALSE

Ask(c) ==
  /\ asked = NoConfig
  /\ asked' = c /\ answer' = <<>>
  /\ UNCHANGED <<active, running>>

Use ==
  /\ asked \in Passing
  /\ active' = {asked}
  /\ UNCHANGED <<asked, answer, running>>

Answer ==
  /\ asked \in Configs
  /\ asked \in Passing => active = {asked}
  /\ answer' = <<asked, asked \in Passing>> /\ asked' = NoConfig
  /\ UNCHANGED <<active, running>>

Reload ==
  /\ asked = NoConfig
  /\ running' = IF running # NoFile /\ Valid(active) THEN Contents(active) ELSE running
  /\ UNCHANGED <<active, asked, answer>>

StoreNext ==
  \/ disturbed \/ disturbed'
  \/ (\E c \in Configs : Ask(c)) \/ Use \/ Answer \/ Reload

StoreSpec == StoreInit /\ [][StoreNext]_storeVars
=============================================================================
