---------------------------- MODULE NginxConfig ----------------------------
(***************************************************************************)
(* shell/nginx.sh, the files it moves and the main server's two handlers    *)
(* that run it.  A script is one command after the other, each of which may *)
(* fail by itself; the server waits for it in executeCMD.  When the server  *)
(* is killed the script goes on until it writes to a pipe nobody reads, and *)
(* a server that is started again may start another script meanwhile.       *)
(*                                                                         *)
(* A file is the set of configurations it holds, or NoFile, and nginx       *)
(* accepts a file all of whose configurations are good.  What is wrong with *)
(* one that is not it says in the client's own words, so that the word the  *)
(* script looks for may be among them.                                      *)
(***************************************************************************)
EXTENDS Integers, FiniteSets

CONSTANTS
  Configs, Good, NoFile, NoConfig,
  Quoting,       \* those nginx refuses with a complaint that quotes "successful"
  Jobs,          \* running scripts
  NoJob,
  Failing,       \* steps whose command may fail: sudo refuses, the disk is full
  ServerMayDie,  \* may the server be killed or end by an exception?
  HostMayReboot,
  MaxMishaps     \* bound on the kills, reboots and failing commands of a run

Steps == {"append", "backup", "stage", "test", "judge",
          "unstageBad", "restore", "say0",
          "dropBackup", "unstageGood", "install", "say1",
          "rmConf", "rmFlag", "exit"}

ASSUME NginxAssumption ==
  /\ Good \subseteq Configs /\ Quoting \subseteq Configs \ Good
  /\ \A file \in SUBSET Configs : file # NoFile
  /\ NoConfig \notin Configs /\ NoJob \notin Jobs
  /\ Failing \subseteq Steps
  /\ ServerMayDie \in BOOLEAN /\ HostMayReboot \in BOOLEAN
  /\ MaxMishaps \in Nat

VARIABLES
  tmpConf,   \* nginxconf/my.tmp.conf, where the client's text is put together
  flag,      \* tmp.file: has it a line with "successful" in it, has it one without?
  staged,    \* /etc/nginx/conf.d/my.tmp.conf
  myConf,    \* /etc/nginx/conf.d/my.conf
  backup,    \* /etc/nginx/conf.d/my.conf.bf
  running,   \* what nginx has loaded, NoFile when it does not run
  step,      \* per job, the command that comes next, "none" when it is not running
  cfgstr,    \* per job, $3
  said,      \* per job, what it has written: {}, {0} or {1}
  server,    \* "up" or "down"
  serving,   \* the job the server waits for
  answer,    \* the last answer: <<>> or <<configuration, was it accepted?>>
  sound,     \* history: the jobs that have run alone, with no command failing
  disturbed, \* history: has something gone wrong that no sound job has cleared?
  mishaps    \* history: how many things have gone wrong, up to MaxMishaps

files    == <<tmpConf, flag, staged, myConf, backup>>
history  == <<sound, disturbed, mishaps>>
nginxVars == <<files, running, step, cfgstr, said, server, serving, answer, history>>

File == {NoFile} \cup SUBSET Configs

Contents(file) == IF file = NoFile THEN {} ELSE file

(* nginx reads every *.conf of conf.d.                                      *)
ConfD == Contents(myConf) \cup Contents(staged)

Accepted(c) == c \subseteq Good

(* What the script takes for accepted, of one configuration.                *)
Passing == Good \cup Quoting

(* The output of nginx -t on c as grep sees it.  One complaint ends the     *)
(* test; of several things wrong, whichever comes first is quoted.          *)
Verdicts(c) ==
  {v \in {"successful", "failed"} :
     /\ v = "successful" => Accepted(c) \/ c \cap Quoting # {}
     /\ v = "failed" => ~(c \subseteq Passing)}

Live == {j \in Jobs : step[j] # "none"}

NginxInit ==
  /\ tmpConf = NoFile /\ flag = {} /\ staged = NoFile /\ backup = NoFile
  /\ myConf \in {NoFile} \cup {{c} : c \in Good}
  /\ running = Contents(myConf)
  /\ step = [j \in Jobs |-> "none"] /\ cfgstr = [j \in Jobs |-> NoConfig]
  /\ said = [j \in Jobs |-> {}]
  /\ server = "up" /\ serving = NoJob /\ answer = <<>>
  /\ sound = {} /\ disturbed = FALSE /\ mishaps = 0

-----------------------------------------------------------------------------
(* The script, test_config                                                  *)

Mishap ==
  /\ mishaps < MaxMishaps
  /\ mishaps' = mishaps + 1 /\ disturbed' = TRUE

(* The process of job j is gone.                                            *)
Ends(j) ==
  /\ step' = [step EXCEPT ![j] = "none"]
  /\ cfgstr' = [cfgstr EXCEPT ![j] = NoConfig]
  /\ said' = [said EXCEPT ![j] = {}]
  /\ sound' = sound \ {j}

(* Job j executes the command of step s and goes on to step t, whether the  *)
(* command has its effect or fails: the script takes no notice.             *)
Execute(j, s, t, effect, failure) ==
  /\ step[j] = s
  /\ step' = [step EXCEPT ![j] = t]
  /\ \/ effect /\ UNCHANGED history
     \/ s \in Failing /\ failure /\ Mishap /\ sound' = sound \ {j}
  /\ UNCHANGED <<running, cfgstr, said, server, serving, answer>>

Command(j, s, t, effect) == Execute(j, s, t, effect, UNCHANGED files)

(* The shell makes the file for ">>" even when sudo runs nothing.            *)
Append(j) ==
  Execute(j, "append", "backup",
    /\ tmpConf' = Contents(tmpConf) \cup {cfgstr[j]}
    /\ UNCHANGED <<flag, staged, myConf, backup>>,
    /\ tmpConf' = Contents(tmpConf)
    /\ UNCHANGED <<flag, staged, myConf, backup>>)

Backup(j) ==
  Command(j, "backup", "stage",
    /\ IF myConf = NoFile THEN UNCHANGED <<myConf, backup>>
                          ELSE backup' = myConf /\ myConf' = NoFile
    /\ UNCHANGED <<tmpConf, flag, staged>>)

Stage(j) ==
  Command(j, "stage", "test",
    /\ staged' = IF tmpConf = NoFile THEN staged ELSE tmpConf
    /\ UNCHANGED <<tmpConf, flag, myConf, backup>>)

(* nginx -t 2>>tmp.file, or what sudo has to say instead.                   *)
Test(j) ==
  Execute(j, "test", "judge",
    /\ \E v \in Verdicts(ConfD) : flag' = flag \cup {v}
    /\ UNCHANGED <<tmpConf, staged, myConf, backup>>,
    /\ flag' = flag \cup {"failed"}
    /\ UNCHANGED <<tmpConf, staged, myConf, backup>>)

(* grep successful, in whatever tmp.file holds; an unreadable file has none. *)
Judge(j) ==
  /\ step[j] = "judge"
  /\ \/ /\ step' = [step EXCEPT ![j] = IF "successful" \in flag THEN "dropBackup"
                                                               ELSE "unstageBad"]
        /\ UNCHANGED history
     \/ /\ "judge" \in Failing
        /\ step' = [step EXCEPT ![j] = "unstageBad"]
        /\ Mishap /\ sound' = sound \ {j}
  /\ UNCHANGED <<files, running, cfgstr, said, server, serving, answer>>

Unstage(j) ==
  /\ staged' = NoFile
  /\ UNCHANGED <<tmpConf, flag, myConf, backup>>

UnstageBad(j)  == Command(j, "unstageBad", "restore", Unstage(j))
UnstageGood(j) == Command(j, "unstageGood", "install", Unstage(j))

(* Mutant: the old file is not put back.  *)
RestoreForgotten(j) ==
  Command(j, "restore", "say0",
    backup' = NoFile /\ UNCHANGED <<tmpConf, flag, staged, myConf>>)

Restore(j) ==
  Command(j, "restore", "say0",
    /\ IF backup = NoFile THEN UNCHANGED <<myConf, backup>>
                          ELSE myConf' = backup /\ backup' = NoFile
    /\ UNCHANGED <<tmpConf, flag, staged>>)

DropBackup(j) ==
  Command(j, "dropBackup", "unstageGood",
    backup' = NoFile /\ UNCHANGED <<tmpConf, flag, staged, myConf>>)

Install(j) ==
  Command(j, "install", "say1",
    /\ myConf' = IF tmpConf = NoFile THEN myConf ELSE tmpConf
    /\ UNCHANGED <<tmpConf, flag, staged, backup>>)

(* echo 0 or 1, into the pipe from executeCMD.  The signal of a pipe that   *)
(* nobody reads ends the script here, before it has cleaned up.             *)
Say(j) ==
  /\ step[j] \in {"say0", "say1"}
  /\ IF serving = j
       THEN /\ said' = [said EXCEPT ![j] = {IF step[j] = "say1" THEN 1 ELSE 0}]
            /\ step' = [step EXCEPT ![j] = "rmConf"]
            /\ UNCHANGED <<cfgstr, sound>>
       ELSE Ends(j)
  /\ UNCHANGED <<files, running, server, serving, answer, disturbed, mishaps>>

RmConf(j) ==
  Command(j, "rmConf", "rmFlag",
    tmpConf' = NoFile /\ UNCHANGED <<flag, staged, myConf, backup>>)

(* Mutant: tmp.file is left behind.  *)
RmFlagForgotten(j) == Command(j, "rmFlag", "exit", UNCHANGED files)

RmFlag(j) ==
  Command(j, "rmFlag", "exit",
    flag' = {} /\ UNCHANGED <<tmpConf, staged, myConf, backup>>)

(* A script whose server is gone ends without being asked.                  *)
Unheard(j) ==
  /\ step[j] = "exit" /\ serving # j /\ Ends(j)
  /\ disturbed' = (disturbed /\ j \notin sound)
  /\ UNCHANGED <<files, running, server, serving, answer, mishaps>>

Script(j) ==
  \/ Append(j) \/ Backup(j) \/ Stage(j) \/ Test(j) \/ Judge(j)
  \/ UnstageBad(j) \/ Restore(j)
  \/ DropBackup(j) \/ UnstageGood(j) \/ Install(j)
  \/ Say(j) \/ RmConf(j) \/ RmFlag(j) \/ Unheard(j)

-----------------------------------------------------------------------------
(* The server                                                               *)

(* Handler_NginxTest starts the script and waits.  A job is sound while no  *)
(* other runs.                                                              *)
NginxTest(j, c) ==
  /\ server = "up" /\ serving = NoJob /\ step[j] = "none"
  /\ serving' = j /\ answer' = <<>>
  /\ step' = [step EXCEPT ![j] = "append"]
  /\ cfgstr' = [cfgstr EXCEPT ![j] = c]
  /\ said' = [said EXCEPT ![j] = {}]
  /\ sound' = IF Live = {} THEN {j} ELSE {}
  /\ UNCHANGED <<files, running, server, disturbed, mishaps>>

(* The script has ended, and std::stoi reads what it wrote.                 *)
NginxTestAnswer(j) ==
  /\ serving = j /\ step[j] = "exit" /\ Ends(j)
  /\ answer' = <<cfgstr[j], 1 \in said[j]>>
  /\ serving' = NoJob
  /\ disturbed' = (disturbed /\ j \notin sound)
  /\ UNCHANGED <<files, running, server, mishaps>>

(* Handler_ReloadNginx: nginx writes what it has to say to stderr, so that  *)
(* the script's answer is 1 whether the files were loaded or not.           *)
ReloadNginx ==
  /\ server = "up" /\ serving = NoJob
  /\ running' = IF running # NoFile /\ Accepted(ConfD) THEN ConfD ELSE running
  /\ UNCHANGED <<files, step, cfgstr, said, server, serving, answer, history>>

(* Mutant: whatever waits for the script outlives the server.  *)
KillServerWaiting ==
  /\ ServerMayDie /\ server = "up"
  /\ server' = "down" /\ Mishap
  /\ UNCHANGED <<files, running, step, cfgstr, said, serving, answer, sound>>

KillServer ==
  /\ ServerMayDie /\ server = "up"
  /\ server' = "down" /\ serving' = NoJob
  /\ Mishap
  /\ UNCHANGED <<files, running, step, cfgstr, said, answer, sound>>

RestartServer ==
  /\ server = "down" /\ server' = "up"
  /\ UNCHANGED <<files, running, step, cfgstr, said, serving, answer, history>>

(* Scripts end where they are; nginx starts with what conf.d holds, or      *)
(* does not start.                                                          *)
Reboot ==
  /\ HostMayReboot
  /\ server' = "down" /\ serving' = NoJob
  /\ step' = [j \in Jobs |-> "none"] /\ cfgstr' = [j \in Jobs |-> NoConfig]
  /\ said' = [j \in Jobs |-> {}]
  /\ running' = IF Accepted(ConfD) THEN ConfD ELSE NoFile
  /\ Mishap /\ sound' = {}
  /\ UNCHANGED <<files, answer>>

NginxNext ==
  \/ \E j \in Jobs :
       \/ Script(j)
       \/ \E c \in Configs : NginxTest(j, c)
       \/ NginxTestAnswer(j)
  \/ ReloadNginx \/ KillServer \/ RestartServer \/ Reboot

NginxSpec == NginxInit /\ [][NginxNext]_nginxVars

-----------------------------------------------------------------------------
(* Properties                                                               *)

(* Types.  The server waits for a script that runs, and only while it lives. *)
NginxTypeOK ==
  /\ tmpConf \in File /\ staged \in File /\ myConf \in File /\ backup \in File
  /\ running \in File
  /\ flag \subseteq {"successful", "failed"}
  /\ step \in [Jobs -> Steps \cup {"none"}]
  /\ cfgstr \in [Jobs -> Configs \cup {NoConfig}]
  /\ Live = {j \in Jobs : cfgstr[j] \in Configs}
  /\ said \in [Jobs -> SUBSET {0, 1}]
  /\ server \in {"up", "down"}
  /\ serving \in Live \cup {NoJob}
  /\ server = "down" => serving = NoJob
  /\ sound \subseteq Live /\ disturbed \in BOOLEAN /\ mishaps \in 0 .. MaxMishaps

(* One script that runs alone to its end clears up whatever kills, reboots  *)
(* and failed commands have left behind, so that the next one begins with   *)
(* nothing of an earlier client's text and no earlier verdict.              *)
ScratchClean ==
  ~disturbed /\ serving = NoJob =>
    tmpConf = NoFile /\ flag = {} /\ staged = NoFile /\ backup = NoFile

(* Between removing the old file and copying the new one, the new one is    *)
(* only in my.tmp.conf.                                                     *)
Active ==
  CASE myConf # NoFile -> myConf
    [] myConf = NoFile /\ backup # NoFile -> backup
    [] myConf = NoFile /\ backup = NoFile ->
         IF serving # NoJob /\ step[serving] \in {"unstageGood", "install"}
           THEN {cfgstr[serving]} ELSE NoFile

Store == INSTANCE ConfigStore WITH
  active <- Active,
  asked  <- IF serving = NoJob THEN NoConfig ELSE cfgstr[serving]

(* As long as nothing disturbs it, and again after one script has run alone, *)
(* the thirteen commands put a configuration that passes - nginx accepts it, *)
(* or its complaint contains the word the script looks for - in the place   *)
(* of the old one, leave the old one for any other, and the client is told  *)
(* which; and nginx loads none that it does not accept.                     *)
ImplementsConfigStore == Store!StoreSpec

-----------------------------------------------------------------------------
(* What comments say, and the code does not keep.                           *)

(* "获取客户端配置的测试结果" (get the result of testing the client's configura- *)
(* tion, nginx.sh:10): a configuration that is answered as accepted is one  *)
(* nginx accepts.  One whose complaint has the word in it is not, and a     *)
(* tmp.file left by a script that was cut off makes any next one pass.      *)
AcceptedIsGood == \A c \in Configs : answer = <<c, TRUE>> => c \in Good

(* "恢复nginx配置" (restore the configuration, nginx.sh:16): a file once       *)
(* installed is not lost.  A reboot after the old one's backup is removed   *)
(* and before the new one is copied leaves none.                            *)
ConfigKept == [][Active # NoFile => Active' # NoFile]_nginxVars
=============================================================================
