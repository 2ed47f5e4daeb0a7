---------------------------- MODULE NginxProofs ----------------------------
(***************************************************************************)
(* nginx.sh clears up after whatever went wrong before it, and behaves as a *)
(* place for one configuration, for every set of configurations, any number *)
(* of scripts at once and every choice of what may fail.                    *)
(***************************************************************************)
EXTENDS NginxConfig, TLAPS

-----------------------------------------------------------------------------
(* The inductive invariant                                                  *)

Clean == tmpConf = NoFile /\ flag = {} /\ staged = NoFile /\ backup = NoFile

Verdict(c) == IF c \in Passing THEN "successful" ELSE "failed"

(* No other script runs beside a sound one.                                 *)
SoundAlone == \A j \in sound : \A k \in Live : k = j

(* What a sound script has removed so far, whatever it found.               *)
SoundAt(j) ==
  /\ step[j] \in {"rmFlag", "exit"} => tmpConf = NoFile
  /\ step[j] = "exit" => flag = {}
  /\ step[j] \in {"restore", "install", "say0", "say1", "rmConf", "rmFlag", "exit"} =>
       staged = NoFile
  /\ step[j] \in {"unstageGood", "install", "say0", "say1", "rmConf", "rmFlag", "exit"} =>
       backup = NoFile

SoundFiles == \A j \in sound : SoundAt(j)

(* Undisturbed, the only script is the one the server waits for, and sound. *)
CalmServes == ~disturbed => \A k \in Live : k = serving /\ k \in sound

CalmClean == ~disturbed /\ serving = NoJob => Clean

(* Where the client's text and the old configuration are at each command of *)
(* an undisturbed script, and what it knows about the text.                 *)
CalmAt(j) ==
  /\ step[j] = "append" => Clean
  /\ step[j] \in {"backup", "stage", "test"} => flag = {}
  /\ step[j] \in {"backup", "stage"} => staged = NoFile
  /\ step[j] = "backup" => backup = NoFile
  /\ step[j] \in {"test", "judge"} => staged = {cfgstr[j]}
  /\ step[j] \in {"backup", "stage", "test", "judge", "dropBackup", "unstageGood",
                  "install"} => tmpConf = {cfgstr[j]}
  /\ step[j] \in {"stage", "test", "judge", "unstageBad", "restore", "dropBackup",
                  "unstageGood", "install"} => myConf = NoFile
  /\ step[j] = "judge" => flag = {Verdict(cfgstr[j])}
  /\ step[j] \in {"unstageBad", "restore", "say0"} => cfgstr[j] \notin Passing
  /\ step[j] \in {"dropBackup", "unstageGood", "install", "say1"} => cfgstr[j] \in Passing
  /\ step[j] = "say1" => myConf = {cfgstr[j]}
  /\ step[j] \in {"rmConf", "rmFlag", "exit"} =>
       /\ cfgstr[j] \in Passing => myConf = {cfgstr[j]} /\ said[j] = {1}
       /\ cfgstr[j] \notin Passing => said[j] = {0}

CalmFiles == ~disturbed /\ serving # NoJob => CalmAt(serving)

NginxInv ==
  NginxTypeOK /\ SoundAlone /\ SoundFiles /\ CalmServes /\ CalmClean /\ CalmFiles

-----------------------------------------------------------------------------
(* A command of script j: only its place and the files change, and a        *)
(* failure leaves the script unsound and the store disturbed.               *)
Moves(j, s, t) ==
  /\ step[j] = s /\ step' = [step EXCEPT ![j] = t]
  /\ UNCHANGED <<running, cfgstr, said, server, serving, answer>>
  /\ UNCHANGED history \/ (Mishap /\ sound' = sound \ {j})

FilesTyped ==
  /\ tmpConf \in File /\ staged \in File /\ myConf \in File /\ backup \in File
  /\ flag \subseteq {"successful", "failed"}

LEMMA InitInv == NginxInit => NginxInv
<1> SUFFICES ASSUME NginxInit PROVE NginxInv
  OBVIOUS
<1> USE NginxAssumption DEF NginxInit
<1>1. \A c \in Good : {c} \in SUBSET Configs
  OBVIOUS
<1>2. Live = {} /\ \A j \in Jobs : cfgstr[j] = NoConfig /\ step[j] = "none"
  BY DEF Live
<1>3. NginxTypeOK
  <2>1. mishaps \in 0 .. MaxMishaps
    OBVIOUS
  <2>2. myConf \in File /\ running \in File
    BY <1>1 DEF File, Contents
  <2> QED
    BY <1>2, <2>1, <2>2 DEF NginxTypeOK, File, Steps
<1>4. SoundAlone /\ SoundFiles /\ CalmServes
  BY <1>2 DEF SoundAlone, SoundFiles, CalmServes
<1>5. CalmClean /\ CalmFiles
  BY DEF CalmClean, CalmFiles, Clean
<1> QED
  BY <1>3, <1>4, <1>5 DEF NginxInv

LEMMA MishapTyped ==
  ASSUME NginxTypeOK, Mishap
  PROVE  disturbed' = TRUE /\ mishaps' \in 0 .. MaxMishaps
<1>1. mishaps \in 0 .. MaxMishaps
  BY DEF NginxTypeOK
<1> QED
  BY <1>1, NginxAssumption DEF Mishap

LEMMA MovesKeepsTypes ==
  ASSUME NginxTypeOK, NEW j \in Jobs, NEW s \in Steps, NEW t \in Steps,
         Moves(j, s, t), FilesTyped'
  PROVE  /\ NginxTypeOK' /\ Live' = Live /\ j \in Live
         /\ step'[j] = t /\ \A k \in Jobs \ {j} : step'[k] = step[k]
<1> USE NginxAssumption
<1>1. step'[j] = t /\ \A k \in Jobs \ {j} : step'[k] = step[k]
  BY DEF Moves, NginxTypeOK
<1>2. Live' = Live /\ j \in Live
  BY <1>1 DEF Live, Moves, Steps
<1>3. step' \in [Jobs -> Steps \cup {"none"}]
  BY DEF Moves, NginxTypeOK
<1>4. sound' \subseteq Live' /\ disturbed' \in BOOLEAN /\ mishaps' \in 0 .. MaxMishaps
  <2>1. CASE UNCHANGED history
    BY <1>2, <2>1 DEF NginxTypeOK, history
  <2>2. CASE Mishap /\ sound' = sound \ {j}
    BY <1>2, <2>2, MishapTyped DEF NginxTypeOK
  <2> QED
    BY <2>1, <2>2 DEF Moves
<1>5. Live' = {k \in Jobs : cfgstr'[k] \in Configs}
  BY <1>2 DEF Moves, NginxTypeOK
<1>6. running' \in File /\ cfgstr' \in [Jobs -> Configs \cup {NoConfig}]
      /\ said' \in [Jobs -> SUBSET {0, 1}] /\ server' \in {"up", "down"}
      /\ serving' \in Live' \cup {NoJob} /\ (server' = "down" => serving' = NoJob)
  BY <1>2 DEF Moves, NginxTypeOK, File
<1> QED
  BY <1>1, <1>2, <1>3, <1>4, <1>5, <1>6 DEF NginxTypeOK, FilesTyped

(* What a command has to establish, if it has its effect.                   *)
LEMMA CommandKeeps ==
  ASSUME NginxInv, NEW j \in Jobs, NEW s \in Steps, NEW t \in Steps,
         Moves(j, s, t), FilesTyped',
         UNCHANGED history /\ j \in sound => SoundAt(j)',
         UNCHANGED history /\ ~disturbed /\ j = serving => CalmAt(j)'
  PROVE  NginxInv'
<1> USE NginxAssumption DEF NginxInv
<1>1. NginxTypeOK' /\ Live' = Live /\ j \in Live
  BY MovesKeepsTypes
<1>2. sound' \subseteq sound /\ (j \in sound' => UNCHANGED history)
  BY DEF Moves, Mishap, history
<1>3. ~disturbed' => UNCHANGED history /\ ~disturbed
  BY DEF Moves, Mishap, history
<1>4. SoundAlone'
  BY <1>1, <1>2 DEF SoundAlone
<1>5. SoundFiles'
  <2> SUFFICES ASSUME NEW k \in sound' PROVE SoundAt(k)'
    BY DEF SoundFiles
  <2>1. k = j
    BY <1>1, <1>2 DEF SoundAlone
  <2> QED
    BY <1>2, <2>1
<1>6. CalmServes'
  BY <1>1, <1>3 DEF CalmServes, Moves, history
<1>7. ~disturbed => serving = j
  BY <1>1 DEF CalmServes
<1>8. CalmClean'
  BY <1>3, <1>7 DEF CalmClean, Moves
<1>9. CalmFiles'
  BY <1>3, <1>7 DEF CalmFiles, Moves
<1> QED
  BY <1>1, <1>4, <1>5, <1>6, <1>8, <1>9

-----------------------------------------------------------------------------
(* One lemma per command, in the order of the script                        *)

LEMMA AppendKeeps == ASSUME NginxInv, NEW j \in Jobs, Append(j) PROVE NginxInv'
<1> USE NginxAssumption DEF NginxInv
<1>1. cfgstr[j] \in Configs
  BY DEF Append, Execute, NginxTypeOK, Live
<1>2. Moves(j, "append", "backup")
  BY DEF Append, Execute, Moves, history
<1>3. FilesTyped'
  BY <1>1 DEF Append, Execute, FilesTyped, NginxTypeOK, File, Contents
<1>4. "append" \in Steps /\ "backup" \in Steps /\ step'[j] = "backup"
  BY DEF Steps, Append, Execute, NginxTypeOK
<1>5. SoundAt(j)'
  BY <1>4 DEF SoundAt
<1>6. UNCHANGED history /\ ~disturbed /\ j = serving => CalmAt(j)'
  <2> SUFFICES ASSUME UNCHANGED history, ~disturbed, j = serving PROVE CalmAt(j)'
    OBVIOUS
  <2>1. Clean
    BY DEF CalmFiles, CalmAt, Append, Execute
  <2>2. tmpConf' = {cfgstr[j]} /\ UNCHANGED <<flag, staged, myConf, backup, cfgstr>>
    BY <2>1 DEF Append, Execute, Mishap, history, Clean, Contents
  <2> QED
    BY <2>1, <2>2, <1>4 DEF CalmAt, Clean
<1> QED
  BY <1>2, <1>3, <1>4, <1>5, <1>6, CommandKeeps

LEMMA BackupKeeps == ASSUME NginxInv, NEW j \in Jobs, Backup(j) PROVE NginxInv'
<1> USE NginxAssumption DEF NginxInv
<1>1. Moves(j, "backup", "stage")
  BY DEF Backup, Command, Execute, Moves, history
<1>2. FilesTyped'
  BY DEF Backup, Command, Execute, FilesTyped, NginxTypeOK, File, files
<1>3. "backup" \in Steps /\ "stage" \in Steps /\ step'[j] = "stage"
  BY DEF Steps, Backup, Command, Execute, NginxTypeOK
<1>4. SoundAt(j)'
  BY <1>3 DEF SoundAt
<1>5. UNCHANGED history /\ ~disturbed /\ j = serving => CalmAt(j)'
  <2> SUFFICES ASSUME UNCHANGED history, ~disturbed, j = serving PROVE CalmAt(j)'
    OBVIOUS
  <2>1. CalmAt(j) /\ step[j] = "backup" /\ cfgstr' = cfgstr
    BY DEF CalmFiles, Backup, Command, Execute
  <2>2. myConf' = NoFile /\ UNCHANGED <<tmpConf, flag, staged>>
    BY DEF Backup, Command, Execute, Mishap, history
  <2> QED
    BY <2>1, <2>2, <1>3 DEF CalmAt
<1> QED
  BY <1>1, <1>2, <1>3, <1>4, <1>5, CommandKeeps

LEMMA StageKeeps == ASSUME NginxInv, NEW j \in Jobs, Stage(j) PROVE NginxInv'
<1> USE NginxAssumption DEF NginxInv
<1>1. Moves(j, "stage", "test")
  BY DEF Stage, Command, Execute, Moves, history
<1>2. FilesTyped'
  BY DEF Stage, Command, Execute, FilesTyped, NginxTypeOK, File, files
<1>3. "stage" \in Steps /\ "test" \in Steps /\ step'[j] = "test"
  BY DEF Steps, Stage, Command, Execute, NginxTypeOK
<1>4. SoundAt(j)'
  BY <1>3 DEF SoundAt
<1>5. UNCHANGED history /\ ~disturbed /\ j = serving => CalmAt(j)'
  <2> SUFFICES ASSUME UNCHANGED history, ~disturbed, j = serving PROVE CalmAt(j)'
    OBVIOUS
  <2>1. CalmAt(j) /\ step[j] = "stage" /\ cfgstr' = cfgstr
    BY DEF CalmFiles, Stage, Command, Execute
  <2>2. /\ staged' = IF tmpConf = NoFile THEN staged ELSE tmpConf
        /\ UNCHANGED <<tmpConf, flag, myConf, backup>>
    BY DEF Stage, Command, Execute, Mishap, history
  <2>3. cfgstr[j] \in Configs
    BY DEF NginxTypeOK, Live
  <2>4. {cfgstr[j]} # NoFile
    BY <2>3
  <2> QED
    BY <2>1, <2>2, <2>4, <1>3 DEF CalmAt
<1> QED
  BY <1>1, <1>2, <1>3, <1>4, <1>5, CommandKeeps

LEMMA TestKeeps == ASSUME NginxInv, NEW j \in Jobs, Test(j) PROVE NginxInv'
<1> USE NginxAssumption DEF NginxInv
<1>1. Moves(j, "test", "judge")
  BY DEF Test, Execute, Moves, history
<1>2. FilesTyped'
  BY DEF Test, Execute, Verdicts, FilesTyped, NginxTypeOK
<1>3. "test" \in Steps /\ "judge" \in Steps /\ step'[j] = "judge"
  BY DEF Steps, Test, Execute, NginxTypeOK
<1>4. SoundAt(j)'
  BY <1>3 DEF SoundAt
<1>5. UNCHANGED history /\ ~disturbed /\ j = serving => CalmAt(j)'
  <2> SUFFICES ASSUME UNCHANGED history, ~disturbed, j = serving PROVE CalmAt(j)'
    OBVIOUS
  <2>1. CalmAt(j) /\ step[j] = "test" /\ cfgstr' = cfgstr
    BY DEF CalmFiles, Test, Execute
  <2>2. UNCHANGED <<tmpConf, staged, myConf, backup>>
    BY DEF Test, Execute
  <2>3. PICK v \in Verdicts(ConfD) : flag' = flag \cup {v}
    BY DEF Test, Execute, Mishap, history
  <2>4. {cfgstr[j]} # NoFile
    BY DEF NginxTypeOK, Live
  <2>5. ConfD = {cfgstr[j]}
    BY <2>1, <2>4 DEF CalmAt, ConfD, Contents
  <2>6. flag' = {Verdict(cfgstr[j])}
    BY <2>1, <2>3, <2>5 DEF CalmAt, Verdicts, Accepted, Passing, Verdict
  <2> QED
    BY <2>1, <2>2, <2>6, <1>3 DEF CalmAt, Verdict
<1> QED
  BY <1>1, <1>2, <1>3, <1>4, <1>5, CommandKeeps

LEMMA JudgeKeeps == ASSUME NginxInv, NEW j \in Jobs, Judge(j) PROVE NginxInv'
<1> USE NginxAssumption DEF NginxInv
<1>1. PICK t \in {"dropBackup", "unstageBad"} : Moves(j, "judge", t)
  BY DEF Judge, Moves, history
<1>2. FilesTyped'
  BY DEF Judge, FilesTyped, NginxTypeOK, files
<1>3. "judge" \in Steps /\ t \in Steps /\ step'[j] = t
  BY <1>1 DEF Steps, Moves, NginxTypeOK
<1>4. SoundAt(j)'
  BY <1>3 DEF SoundAt
<1>5. UNCHANGED history /\ ~disturbed /\ j = serving => CalmAt(j)'
  <2> SUFFICES ASSUME UNCHANGED history, ~disturbed, j = serving PROVE CalmAt(j)'
    OBVIOUS
  <2>1. CalmAt(j) /\ step[j] = "judge" /\ cfgstr' = cfgstr
    BY DEF CalmFiles, Judge
  <2>2. UNCHANGED <<tmpConf, staged, myConf, backup, flag>>
    BY DEF Judge, files
  <2>3. t = IF "successful" \in flag THEN "dropBackup" ELSE "unstageBad"
    BY <1>3 DEF Judge, Mishap, history, NginxTypeOK
  <2>4. t = IF cfgstr[j] \in Passing THEN "dropBackup" ELSE "unstageBad"
    BY <2>1, <2>3 DEF CalmAt, Verdict
  <2> QED
    BY <2>1, <2>2, <2>4, <1>3 DEF CalmAt
<1> QED
  BY <1>1, <1>2, <1>3, <1>4, <1>5, CommandKeeps

LEMMA UnstageBadKeeps == ASSUME NginxInv, NEW j \in Jobs, UnstageBad(j) PROVE NginxInv'
<1> USE NginxAssumption DEF NginxInv
<1>1. Moves(j, "unstageBad", "restore")
  BY DEF UnstageBad, Command, Execute, Moves, history
<1>2. FilesTyped'
  BY DEF UnstageBad, Command, Execute, Unstage, FilesTyped, NginxTypeOK, File, files
<1>3. "unstageBad" \in Steps /\ "restore" \in Steps /\ step'[j] = "restore"
  BY DEF Steps, UnstageBad, Command, Execute, NginxTypeOK
<1>4. UNCHANGED history /\ (j \in sound \/ ~disturbed) =>
        staged' = NoFile /\ UNCHANGED <<tmpConf, flag, myConf, backup>>
  BY DEF UnstageBad, Command, Execute, Unstage, Mishap, history
<1>5. UNCHANGED history /\ j \in sound => SoundAt(j)'
  <2> SUFFICES ASSUME UNCHANGED history, j \in sound PROVE SoundAt(j)'
    OBVIOUS
  <2>1. SoundAt(j) /\ step[j] = "unstageBad"
    BY DEF SoundFiles, UnstageBad, Command, Execute
  <2> QED
    BY <2>1, <1>3, <1>4 DEF SoundAt
<1>6. UNCHANGED history /\ ~disturbed /\ j = serving => CalmAt(j)'
  <2> SUFFICES ASSUME UNCHANGED history, ~disturbed, j = serving PROVE CalmAt(j)'
    OBVIOUS
  <2>1. CalmAt(j) /\ step[j] = "unstageBad" /\ cfgstr' = cfgstr /\ said' = said
    BY DEF CalmFiles, UnstageBad, Command, Execute
  <2> QED
    BY <2>1, <1>3, <1>4 DEF CalmAt
<1> QED
  BY <1>1, <1>2, <1>3, <1>5, <1>6, CommandKeeps

LEMMA RestoreKeeps == ASSUME NginxInv, NEW j \in Jobs, Restore(j) PROVE NginxInv'
<1> USE NginxAssumption DEF NginxInv
<1>1. Moves(j, "restore", "say0")
  BY DEF Restore, Command, Execute, Moves, history
<1>2. FilesTyped'
  BY DEF Restore, Command, Execute, FilesTyped, NginxTypeOK, File, files
<1>3. "restore" \in Steps /\ "say0" \in Steps /\ step'[j] = "say0"
  BY DEF Steps, Restore, Command, Execute, NginxTypeOK
<1>4. UNCHANGED history /\ (j \in sound \/ ~disturbed) =>
        backup' = NoFile /\ UNCHANGED <<tmpConf, flag, staged>>
  BY DEF Restore, Command, Execute, Mishap, history
<1>5. UNCHANGED history /\ j \in sound => SoundAt(j)'
  <2> SUFFICES ASSUME UNCHANGED history, j \in sound PROVE SoundAt(j)'
    OBVIOUS
  <2>1. SoundAt(j) /\ step[j] = "restore"
    BY DEF SoundFiles, Restore, Command, Execute
  <2> QED
    BY <2>1, <1>3, <1>4 DEF SoundAt
<1>6. UNCHANGED history /\ ~disturbed /\ j = serving => CalmAt(j)'
  <2> SUFFICES ASSUME UNCHANGED history, ~disturbed, j = serving PROVE CalmAt(j)'
    OBVIOUS
  <2>1. CalmAt(j) /\ step[j] = "restore" /\ cfgstr' = cfgstr /\ said' = said
    BY DEF CalmFiles, Restore, Command, Execute
  <2> QED
    BY <2>1, <1>3, <1>4 DEF CalmAt
<1> QED
  BY <1>1, <1>2, <1>3, <1>5, <1>6, CommandKeeps

LEMMA DropBackupKeeps == ASSUME NginxInv, NEW j \in Jobs, DropBackup(j) PROVE NginxInv'
<1> USE NginxAssumption DEF NginxInv
<1>1. Moves(j, "dropBackup", "unstageGood")
  BY DEF DropBackup, Command, Execute, Moves, history
<1>2. FilesTyped'
  BY DEF DropBackup, Command, Execute, FilesTyped, NginxTypeOK, File, files
<1>3. "dropBackup" \in Steps /\ "unstageGood" \in Steps /\ step'[j] = "unstageGood"
  BY DEF Steps, DropBackup, Command, Execute, NginxTypeOK
<1>4. UNCHANGED history /\ (j \in sound \/ ~disturbed) =>
        backup' = NoFile /\ UNCHANGED <<tmpConf, flag, staged, myConf>>
  BY DEF DropBackup, Command, Execute, Mishap, history
<1>5. UNCHANGED history /\ j \in sound => SoundAt(j)'
  <2> SUFFICES ASSUME UNCHANGED history, j \in sound PROVE SoundAt(j)'
    OBVIOUS
  <2>1. SoundAt(j) /\ step[j] = "dropBackup"
    BY DEF SoundFiles, DropBackup, Command, Execute
  <2> QED
    BY <2>1, <1>3, <1>4 DEF SoundAt
<1>6. UNCHANGED history /\ ~disturbed /\ j = serving => CalmAt(j)'
  <2> SUFFICES ASSUME UNCHANGED history, ~disturbed, j = serving PROVE CalmAt(j)'
    OBVIOUS
  <2>1. CalmAt(j) /\ step[j] = "dropBackup" /\ cfgstr' = cfgstr /\ said' = said
    BY DEF CalmFiles, DropBackup, Command, Execute
  <2> QED
    BY <2>1, <1>3, <1>4 DEF CalmAt
<1> QED
  BY <1>1, <1>2, <1>3, <1>5, <1>6, CommandKeeps

LEMMA UnstageGoodKeeps == ASSUME NginxInv, NEW j \in Jobs, UnstageGood(j) PROVE NginxInv'
<1> USE NginxAssumption DEF NginxInv
<1>1. Moves(j, "unstageGood", "install")
  BY DEF UnstageGood, Command, Execute, Moves, history
<1>2. FilesTyped'
  BY DEF UnstageGood, Command, Execute, Unstage, FilesTyped, NginxTypeOK, File, files
<1>3. "unstageGood" \in Steps /\ "install" \in Steps /\ step'[j] = "install"
  BY DEF Steps, UnstageGood, Command, Execute, NginxTypeOK
<1>4. UNCHANGED history /\ (j \in sound \/ ~disturbed) =>
        staged' = NoFile /\ UNCHANGED <<tmpConf, flag, myConf, backup>>
  BY DEF UnstageGood, Command, Execute, Unstage, Mishap, history
<1>5. UNCHANGED history /\ j \in sound => SoundAt(j)'
  <2> SUFFICES ASSUME UNCHANGED history, j \in sound PROVE SoundAt(j)'
    OBVIOUS
  <2>1. SoundAt(j) /\ step[j] = "unstageGood"
    BY DEF SoundFiles, UnstageGood, Command, Execute
  <2> QED
    BY <2>1, <1>3, <1>4 DEF SoundAt
<1>6. UNCHANGED history /\ ~disturbed /\ j = serving => CalmAt(j)'
  <2> SUFFICES ASSUME UNCHANGED history, ~disturbed, j = serving PROVE CalmAt(j)'
    OBVIOUS
  <2>1. CalmAt(j) /\ step[j] = "unstageGood" /\ cfgstr' = cfgstr /\ said' = said
    BY DEF CalmFiles, UnstageGood, Command, Execute
  <2> QED
    BY <2>1, <1>3, <1>4 DEF CalmAt
<1> QED
  BY <1>1, <1>2, <1>3, <1>5, <1>6, CommandKeeps

LEMMA InstallKeeps == ASSUME NginxInv, NEW j \in Jobs, Install(j) PROVE NginxInv'
<1> USE NginxAssumption DEF NginxInv
<1>1. Moves(j, "install", "say1")
  BY DEF Install, Command, Execute, Moves, history
<1>2. FilesTyped'
  BY DEF Install, Command, Execute, FilesTyped, NginxTypeOK, File, files
<1>3. "install" \in Steps /\ "say1" \in Steps /\ step'[j] = "say1"
  BY DEF Steps, Install, Command, Execute, NginxTypeOK
<1>4. UNCHANGED history /\ (j \in sound \/ ~disturbed) =>
        (tmpConf # NoFile => myConf' = tmpConf) /\ UNCHANGED <<tmpConf, flag, staged, backup>>
  BY DEF Install, Command, Execute, Mishap, history
<1>5. UNCHANGED history /\ j \in sound => SoundAt(j)'
  <2> SUFFICES ASSUME UNCHANGED history, j \in sound PROVE SoundAt(j)'
    OBVIOUS
  <2>1. SoundAt(j) /\ step[j] = "install"
    BY DEF SoundFiles, Install, Command, Execute
  <2> QED
    BY <2>1, <1>3, <1>4 DEF SoundAt
<1>6. UNCHANGED history /\ ~disturbed /\ j = serving => CalmAt(j)'
  <2> SUFFICES ASSUME UNCHANGED history, ~disturbed, j = serving PROVE CalmAt(j)'
    OBVIOUS
  <2>1. CalmAt(j) /\ step[j] = "install" /\ cfgstr' = cfgstr /\ said' = said
    BY DEF CalmFiles, Install, Command, Execute
  <2>2. {cfgstr[j]} # NoFile
    BY DEF NginxTypeOK, Live
  <2> QED
    BY <2>1, <2>2, <1>3, <1>4 DEF CalmAt
<1> QED
  BY <1>1, <1>2, <1>3, <1>5, <1>6, CommandKeeps

LEMMA RmConfKeeps == ASSUME NginxInv, NEW j \in Jobs, RmConf(j) PROVE NginxInv'
<1> USE NginxAssumption DEF NginxInv
<1>1. Moves(j, "rmConf", "rmFlag")
  BY DEF RmConf, Command, Execute, Moves, history
<1>2. FilesTyped'
  BY DEF RmConf, Command, Execute, FilesTyped, NginxTypeOK, File, files
<1>3. "rmConf" \in Steps /\ "rmFlag" \in Steps /\ step'[j] = "rmFlag"
  BY DEF Steps, RmConf, Command, Execute, NginxTypeOK
<1>4. UNCHANGED history /\ (j \in sound \/ ~disturbed) =>
        tmpConf' = NoFile /\ UNCHANGED <<flag, staged, myConf, backup>>
  BY DEF RmConf, Command, Execute, Mishap, history
<1>5. UNCHANGED history /\ j \in sound => SoundAt(j)'
  <2> SUFFICES ASSUME UNCHANGED history, j \in sound PROVE SoundAt(j)'
    OBVIOUS
  <2>1. SoundAt(j) /\ step[j] = "rmConf"
    BY DEF SoundFiles, RmConf, Command, Execute
  <2> QED
    BY <2>1, <1>3, <1>4 DEF SoundAt
<1>6. UNCHANGED history /\ ~disturbed /\ j = serving => CalmAt(j)'
  <2> SUFFICES ASSUME UNCHANGED history, ~disturbed, j = serving PROVE CalmAt(j)'
    OBVIOUS
  <2>1. CalmAt(j) /\ step[j] = "rmConf" /\ cfgstr' = cfgstr /\ said' = said
    BY DEF CalmFiles, RmConf, Command, Execute
  <2> QED
    BY <2>1, <1>3, <1>4 DEF CalmAt
<1> QED
  BY <1>1, <1>2, <1>3, <1>5, <1>6, CommandKeeps

LEMMA RmFlagKeeps == ASSUME NginxInv, NEW j \in Jobs, RmFlag(j) PROVE NginxInv'
<1> USE NginxAssumption DEF NginxInv
<1>1. Moves(j, "rmFlag", "exit")
  BY DEF RmFlag, Command, Execute, Moves, history
<1>2. FilesTyped'
  BY DEF RmFlag, Command, Execute, FilesTyped, NginxTypeOK, File, files
<1>3. "rmFlag" \in Steps /\ "exit" \in Steps /\ step'[j] = "exit"
  BY DEF Steps, RmFlag, Command, Execute, NginxTypeOK
<1>4. UNCHANGED history /\ (j \in sound \/ ~disturbed) =>
        flag' = {} /\ UNCHANGED <<tmpConf, staged, myConf, backup>>
  BY DEF RmFlag, Command, Execute, Mishap, history
<1>5. UNCHANGED history /\ j \in sound => SoundAt(j)'
  <2> SUFFICES ASSUME UNCHANGED history, j \in sound PROVE SoundAt(j)'
    OBVIOUS
  <2>1. SoundAt(j) /\ step[j] = "rmFlag"
    BY DEF SoundFiles, RmFlag, Command, Execute
  <2> QED
    BY <2>1, <1>3, <1>4 DEF SoundAt
<1>6. UNCHANGED history /\ ~disturbed /\ j = serving => CalmAt(j)'
  <2> SUFFICES ASSUME UNCHANGED history, ~disturbed, j = serving PROVE CalmAt(j)'
    OBVIOUS
  <2>1. CalmAt(j) /\ step[j] = "rmFlag" /\ cfgstr' = cfgstr /\ said' = said
    BY DEF CalmFiles, RmFlag, Command, Execute
  <2> QED
    BY <2>1, <1>3, <1>4 DEF CalmAt
<1> QED
  BY <1>1, <1>2, <1>3, <1>5, <1>6, CommandKeeps

(* A script that has ended: nothing of it is left but its files.            *)
LEMMA EndsKeepsTypes ==
  ASSUME NginxTypeOK, NEW j \in Live, Ends(j)
  PROVE  /\ step' \in [Jobs -> Steps \cup {"none"}]
         /\ cfgstr' \in [Jobs -> Configs \cup {NoConfig}]
         /\ said' \in [Jobs -> SUBSET {0, 1}]
         /\ Live' = Live \ {j} /\ Live' = {k \in Jobs : cfgstr'[k] \in Configs}
         /\ sound' \subseteq Live'
         /\ \A k \in Live' :
              step'[k] = step[k] /\ cfgstr'[k] = cfgstr[k] /\ said'[k] = said[k]
<1> USE NginxAssumption
<1>1. j \in Jobs
  BY DEF Live
<1>2. /\ step' \in [Jobs -> Steps \cup {"none"}]
      /\ cfgstr' \in [Jobs -> Configs \cup {NoConfig}]
      /\ said' \in [Jobs -> SUBSET {0, 1}]
  BY <1>1 DEF Ends, NginxTypeOK
<1>3. step'[j] = "none" /\ cfgstr'[j] = NoConfig
  BY <1>1 DEF Ends, NginxTypeOK
<1>4. \A k \in Jobs \ {j} :
        step'[k] = step[k] /\ cfgstr'[k] = cfgstr[k] /\ said'[k] = said[k]
  BY <1>1 DEF Ends, NginxTypeOK
<1>5. Live' = Live \ {j}
  BY <1>3, <1>4 DEF Live
<1>6. Live' = {k \in Jobs : cfgstr'[k] \in Configs}
  <2>1. {k \in Jobs : cfgstr'[k] \in Configs} = {k \in Jobs : cfgstr[k] \in Configs} \ {j}
    BY <1>3, <1>4
  <2> QED
    BY <2>1, <1>5 DEF NginxTypeOK
<1>7. sound' \subseteq Live'
  BY <1>5 DEF Ends, NginxTypeOK
<1> QED
  BY <1>2, <1>4, <1>5, <1>6, <1>7 DEF Live

LEMMA SayKeeps == ASSUME NginxInv, NEW j \in Jobs, Say(j) PROVE NginxInv'
<1> USE NginxAssumption DEF NginxInv
<1>0. j \in Live /\ step[j] \in {"say0", "say1"}
  BY DEF Say, Live
<1>1. CASE serving = j
  <2> DEFINE n == IF step[j] = "say1" THEN 1 ELSE 0
  <2>1. /\ said' = [said EXCEPT ![j] = {n}] /\ step' = [step EXCEPT ![j] = "rmConf"]
        /\ UNCHANGED <<cfgstr, sound, files, running, server, serving, answer, disturbed, mishaps>>
    BY <1>1 DEF Say
  <2>2. step'[j] = "rmConf" /\ said'[j] = {n} /\ "rmConf" \in Steps
    BY <2>1 DEF NginxTypeOK, Steps
  <2>3. \A k \in Jobs \ {j} : step'[k] = step[k]
    BY <2>1 DEF NginxTypeOK
  <2>4. Live' = Live
    BY <2>2, <2>3, <1>0 DEF Live, Steps
  <2>5. NginxTypeOK'
    BY <2>1, <2>2, <2>4 DEF NginxTypeOK, files, File
  <2>6. SoundAlone' /\ CalmServes'
    BY <2>1, <2>4 DEF SoundAlone, CalmServes
  <2>7. SoundFiles'
    <3> SUFFICES ASSUME NEW k \in sound' PROVE SoundAt(k)'
      BY DEF SoundFiles
    <3>1. k = j /\ SoundAt(j)
      BY <2>1, <1>0 DEF SoundAlone, SoundFiles
    <3> QED
      BY <3>1, <2>1, <2>2, <1>0 DEF SoundAt, files
  <2>8. CalmClean'
    BY <1>1, <2>1 DEF CalmClean
  <2>9. CalmFiles'
    <3> SUFFICES ASSUME ~disturbed' PROVE CalmAt(j)'
      BY <1>1, <2>1 DEF CalmFiles
    <3>1. CalmAt(j)
      BY <1>1, <2>1 DEF CalmFiles
    <3> QED
      BY <3>1, <2>1, <2>2, <1>0 DEF CalmAt, files
  <2> QED
    BY <2>5, <2>6, <2>7, <2>8, <2>9
<1>2. CASE serving # j
  <2>1. Ends(j) /\ UNCHANGED <<files, running, server, serving, answer, disturbed, mishaps>>
    BY <1>2 DEF Say
  <2>2. disturbed
    BY <1>0, <1>2 DEF CalmServes
  <2>3. /\ Live' = Live \ {j}
        /\ \A k \in Live' : step'[k] = step[k]
        /\ sound' = sound \ {j}
    BY <1>0, <2>1, EndsKeepsTypes DEF Ends
  <2>4. NginxTypeOK'
    BY <1>0, <1>2, <2>1, <2>3, EndsKeepsTypes DEF NginxTypeOK, files, File
  <2>5. SoundAlone'
    BY <2>3 DEF SoundAlone
  <2>6. SoundFiles'
    BY <2>1, <2>3, <1>0 DEF SoundFiles, SoundAlone
  <2>7. CalmServes' /\ CalmClean' /\ CalmFiles'
    BY <2>1, <2>2 DEF CalmServes, CalmClean, CalmFiles
  <2> QED
    BY <2>4, <2>5, <2>6, <2>7
<1> QED
  BY <1>1, <1>2

(* The last command is done.  A sound script leaves nothing behind.          *)
LEMMA ExitKeeps ==
  ASSUME NginxInv, NEW j \in Jobs, step[j] = "exit", Ends(j),
         disturbed' = (disturbed /\ j \notin sound),
         serving' \in {serving, NoJob}, serving' # j,
         UNCHANGED <<files, running, server, mishaps>>
  PROVE  NginxInv'
<1> USE NginxAssumption DEF NginxInv
<1>1. j \in Live
  BY DEF Live
<1>2. /\ Live' = Live \ {j}
      /\ \A k \in Live' : step'[k] = step[k]
      /\ sound' = sound \ {j}
  BY <1>1, EndsKeepsTypes DEF Ends
<1>3. NginxTypeOK'
  BY <1>1, <1>2, EndsKeepsTypes DEF NginxTypeOK, files, File
<1>4. SoundAlone'
  BY <1>2 DEF SoundAlone
<1>5. SoundFiles'
  BY <1>1, <1>2 DEF SoundFiles, SoundAlone
<1>6. ~disturbed' => j \in sound
  BY <1>1 DEF CalmServes, NginxTypeOK
<1>7. ~disturbed' => Live' = {}
  BY <1>2, <1>6 DEF SoundAlone
<1>8. ~disturbed' => serving' = NoJob
  BY <1>3, <1>7 DEF NginxTypeOK
<1>9. j \in sound => Clean'
  BY DEF SoundFiles, SoundAt, Clean, files
<1> QED
  BY <1>3, <1>4, <1>5, <1>6, <1>7, <1>8, <1>9 DEF CalmServes, CalmClean, CalmFiles

-----------------------------------------------------------------------------
(* The server and the host                                                  *)

LEMMA NginxTestKeeps ==
  ASSUME NginxInv, NEW j \in Jobs, NEW c \in Configs, NginxTest(j, c) PROVE NginxInv'
<1> USE NginxAssumption DEF NginxInv
<1>1. step'[j] = "append" /\ cfgstr'[j] = c /\ "append" \in Steps
  BY DEF NginxTest, NginxTypeOK, Steps
<1>2. \A k \in Jobs \ {j} : step'[k] = step[k] /\ cfgstr'[k] = cfgstr[k]
  BY DEF NginxTest, NginxTypeOK
<1>3. Live' = Live \cup {j}
  BY <1>1, <1>2 DEF Live
<1>4. Live' = {k \in Jobs : cfgstr'[k] \in Configs}
  <2>1. {k \in Jobs : cfgstr'[k] \in Configs} = {k \in Jobs : cfgstr[k] \in Configs} \cup {j}
    BY <1>1, <1>2
  <2> QED
    BY <2>1, <1>3 DEF NginxTypeOK
<1>5. sound' = IF Live = {} THEN {j} ELSE {}
  BY DEF NginxTest
<1>6. NginxTypeOK'
  BY <1>1, <1>3, <1>4, <1>5 DEF NginxTest, NginxTypeOK, files, File
<1>7. SoundAlone'
  BY <1>3, <1>5 DEF SoundAlone
<1>8. SoundFiles'
  BY <1>1, <1>5 DEF SoundFiles, SoundAt
<1>9. ~disturbed' => Live = {} /\ Clean
  BY DEF NginxTest, CalmServes, CalmClean, Live
<1>10. CalmServes'
  BY <1>3, <1>5, <1>9 DEF CalmServes, NginxTest
<1>11. CalmClean' /\ CalmFiles'
  BY <1>1, <1>9 DEF CalmClean, CalmFiles, CalmAt, Clean, NginxTest, files
<1> QED
  BY <1>6, <1>7, <1>8, <1>10, <1>11

(* Steps that leave the scripts alone.                                      *)
LEMMA ServerKeeps ==
  ASSUME NginxInv, ReloadNginx \/ KillServer \/ RestartServer PROVE NginxInv'
<1> USE NginxAssumption DEF NginxInv
<1>1. UNCHANGED <<files, step, cfgstr, said, sound>> /\ Live' = Live
  BY DEF ReloadNginx, KillServer, RestartServer, history, Live
<1>2. ConfD \in SUBSET Configs
  BY DEF ConfD, Contents, NginxTypeOK, File
<1>3. NginxTypeOK'
  <2>1. CASE ReloadNginx \/ RestartServer
    BY <1>1, <1>2, <2>1 DEF ReloadNginx, RestartServer, history, NginxTypeOK, files, File
  <2>2. CASE KillServer
    BY <1>1, <2>2, MishapTyped DEF KillServer, NginxTypeOK, files
  <2> QED
    BY <2>1, <2>2
<1>4. SoundAlone' /\ SoundFiles'
  BY <1>1 DEF SoundAlone, SoundFiles, SoundAt, files
<1>5. CASE KillServer
  BY <1>3, <1>4, <1>5 DEF KillServer, Mishap, CalmServes, CalmClean, CalmFiles
<1>6. CASE ReloadNginx \/ RestartServer
  <2>1. UNCHANGED <<serving, disturbed>>
    BY <1>6 DEF ReloadNginx, RestartServer, history
  <2>2. CalmServes' /\ CalmClean' /\ CalmFiles'
    BY <1>1, <2>1 DEF CalmServes, CalmClean, CalmFiles, CalmAt, Clean, files
  <2> QED
    BY <1>3, <1>4, <2>2
<1> QED
  BY <1>5, <1>6

LEMMA RebootKeeps == ASSUME NginxInv, Reboot PROVE NginxInv'
<1> USE NginxAssumption DEF NginxInv
<1>1. \A j \in Jobs : step'[j] = "none" /\ cfgstr'[j] = NoConfig
  BY DEF Reboot
<1>2. Live' = {} /\ sound' = {}
  BY <1>1 DEF Live, Reboot
<1>3. ConfD \in SUBSET Configs
  BY DEF ConfD, Contents, NginxTypeOK, File
<1>4. NginxTypeOK'
  BY <1>1, <1>2, <1>3, MishapTyped DEF Reboot, NginxTypeOK, files, File
<1> QED
  BY <1>2, <1>4 DEF Reboot, Mishap, SoundAlone, SoundFiles, CalmServes, CalmClean, CalmFiles

LEMMA NextInv == NginxInv /\ [NginxNext]_nginxVars => NginxInv'
<1> SUFFICES ASSUME NginxInv, [NginxNext]_nginxVars PROVE NginxInv'
  OBVIOUS
<1>1. ASSUME NEW j \in Jobs, Script(j) PROVE NginxInv'
  <2>1. CASE Append(j) \/ Backup(j) \/ Stage(j) \/ Test(j) \/ Judge(j)
    BY <2>1, AppendKeeps, BackupKeeps, StageKeeps, TestKeeps, JudgeKeeps
  <2>2. CASE UnstageBad(j) \/ Restore(j)
    BY <2>2, UnstageBadKeeps, RestoreKeeps
  <2>3. CASE DropBackup(j) \/ UnstageGood(j) \/ Install(j)
    BY <2>3, DropBackupKeeps, UnstageGoodKeeps, InstallKeeps
  <2>4. CASE Say(j) \/ RmConf(j) \/ RmFlag(j)
    BY <2>4, SayKeeps, RmConfKeeps, RmFlagKeeps
  <2>5. CASE Unheard(j)
    BY <2>5, ExitKeeps DEF Unheard
  <2> QED
    BY <1>1, <2>1, <2>2, <2>3, <2>4, <2>5 DEF Script
<1>2. ASSUME NEW j \in Jobs, NEW c \in Configs, NginxTest(j, c) PROVE NginxInv'
  BY <1>2, NginxTestKeeps
<1>3. ASSUME NEW j \in Jobs, NginxTestAnswer(j) PROVE NginxInv'
  BY <1>3, ExitKeeps, NginxAssumption DEF NginxTestAnswer
<1>4. CASE ReloadNginx \/ KillServer \/ RestartServer \/ Reboot
  BY <1>4, ServerKeeps, RebootKeeps
<1>5. CASE UNCHANGED nginxVars
  BY <1>5 DEF nginxVars, files, history, NginxInv, NginxTypeOK, SoundAlone, SoundFiles,
              SoundAt, CalmServes, CalmClean, CalmFiles, CalmAt, Clean, Live
<1> QED
  BY <1>1, <1>2, <1>3, <1>4, <1>5 DEF NginxNext

LEMMA Invariance == NginxSpec => []NginxInv
<1> QED
  BY InitInv, NextInv, PTL DEF NginxSpec

-----------------------------------------------------------------------------
(* nginxconf/my.tmp.conf, tmp.file and the files in conf.d are files of      *)
(* configurations, and the server waits only for a script that runs.        *)
THEOREM NginxTypesHold == NginxSpec => []NginxTypeOK
<1>1. NginxInv => NginxTypeOK
  BY DEF NginxInv
<1> QED
  BY <1>1, Invariance, PTL

(* The scratch files of nginx.sh are gone whenever the store is undisturbed  *)
(* and no request runs: one script run alone is enough, whatever an earlier  *)
(* one has left in my.tmp.conf, tmp.file and conf.d when it was cut off.     *)
THEOREM ScratchIsCleared == NginxSpec => []ScratchClean
<1>1. NginxInv => ScratchClean
  BY DEF NginxInv, CalmClean, Clean, ScratchClean
<1> QED
  BY <1>1, Invariance, PTL

-----------------------------------------------------------------------------
(* The refinement.  Undisturbed, each command leaves the abstract store as  *)
(* it is, except that the first one removed of the old configuration is the *)
(* moment the new one takes its place.                                      *)

Asked == IF serving = NoJob THEN NoConfig ELSE cfgstr[serving]

LEMMA StoreInitHolds == NginxInit => Store!StoreInit
<1> SUFFICES ASSUME NginxInit PROVE Store!StoreInit
  OBVIOUS
<1>1. Active = myConf
  BY DEF NginxInit, Active
<1> QED
  BY <1>1 DEF NginxInit, Store!StoreInit, Store!Contents, Contents

(* An undisturbed script is the one the server waits for.                   *)
LEMMA CalmScript ==
  ASSUME NginxInv, ~disturbed, NEW j \in Live
  PROVE  serving = j /\ j \in sound /\ CalmAt(j) /\ cfgstr[j] \in Configs /\ Asked = cfgstr[j]
         /\ {cfgstr[j]} # NoFile
<1>1. serving = j /\ j \in sound /\ j # NoJob
  BY NginxAssumption DEF NginxInv, CalmServes, Live
<1>2. cfgstr[j] \in Configs
  BY DEF NginxInv, NginxTypeOK
<1> QED
  BY <1>1, <1>2, NginxAssumption DEF NginxInv, CalmFiles, Asked

LEMMA CommandRefines ==
  ASSUME NginxInv, ~disturbed, ~disturbed', NEW j \in Jobs, Script(j)
  PROVE  [Store!StoreNext]_(Store!storeVars)
<1> USE NginxAssumption
<1>0. j \in Live
  BY DEF Script, Append, Backup, Stage, Test, Judge, UnstageBad, Restore, DropBackup,
         UnstageGood, Install, Say, RmConf, RmFlag, Unheard, Command, Execute, Live
<1>1. /\ serving = j /\ j \in sound /\ CalmAt(j) /\ cfgstr[j] \in Configs
      /\ Asked = cfgstr[j] /\ {cfgstr[j]} # NoFile
  BY <1>0, CalmScript
<1>2. ~Unheard(j)
  BY <1>1 DEF Unheard
<1>3. UNCHANGED <<serving, cfgstr, answer, running, disturbed>>
  BY <1>1, <1>2 DEF Script, Append, Backup, Stage, Test, Judge, UnstageBad, Restore,
         DropBackup, UnstageGood, Install, Say, RmConf, RmFlag, Command, Execute, Mishap, history
<1>4. \A t : step' = [step EXCEPT ![j] = t] => step'[serving] = t
  BY <1>1 DEF NginxInv, NginxTypeOK
<1>5. SUFFICES \/ Active' = Active
               \/ cfgstr[j] \in Passing /\ Active' = {cfgstr[j]}
  BY <1>1, <1>3 DEF Store!StoreNext, Store!storeVars, Store!Use, Asked
<1>6. CASE Append(j) \/ Stage(j) \/ Test(j) \/ Judge(j) \/ UnstageBad(j) \/ RmConf(j) \/ RmFlag(j)
  <2>1. UNCHANGED <<myConf, backup>>
    BY <1>6 DEF Append, Stage, Test, Judge, UnstageBad, RmConf, RmFlag, Command, Execute,
                Unstage, files
  <2>2. step[serving] \notin {"unstageGood", "install"}
        /\ step'[serving] \notin {"unstageGood", "install"}
    BY <1>1, <1>4, <1>6 DEF Append, Stage, Test, Judge, UnstageBad, RmConf, RmFlag, Command, Execute
  <2> QED
    BY <1>3, <2>1, <2>2 DEF Active
<1>7. CASE Backup(j)
  <2>1. step[serving] = "backup" /\ step'[serving] = "stage" /\ backup = NoFile
    BY <1>1, <1>4, <1>7 DEF Backup, Command, Execute, CalmAt
  <2>2. /\ myConf' = NoFile /\ backup' = myConf
    BY <1>3, <1>7, <2>1 DEF Backup, Command, Execute, Mishap, history
  <2> QED
    BY <1>3, <2>1, <2>2 DEF Active
<1>8. CASE Restore(j)
  <2>1. step[serving] = "restore" /\ step'[serving] = "say0" /\ myConf = NoFile
    BY <1>1, <1>4, <1>8 DEF Restore, Command, Execute, CalmAt
  <2>2. myConf' = backup /\ backup' = NoFile
    BY <1>3, <1>8, <2>1 DEF Restore, Command, Execute, Mishap, history
  <2> QED
    BY <1>3, <2>1, <2>2 DEF Active
<1>9. CASE DropBackup(j)
  <2>1. step'[serving] = "unstageGood" /\ myConf = NoFile /\ cfgstr[j] \in Passing
    BY <1>1, <1>4, <1>9 DEF DropBackup, Command, Execute, CalmAt
  <2>2. myConf' = NoFile /\ backup' = NoFile
    BY <1>3, <1>9, <2>1 DEF DropBackup, Command, Execute, Mishap, history
  <2> QED
    BY <1>1, <1>3, <2>1, <2>2 DEF Active
<1>10. CASE UnstageGood(j)
  <2>1. step[serving] = "unstageGood" /\ step'[serving] = "install"
    BY <1>1, <1>4, <1>10 DEF UnstageGood, Command, Execute
  <2>2. UNCHANGED <<myConf, backup>>
    BY <1>10 DEF UnstageGood, Command, Execute, Unstage, files
  <2> QED
    BY <1>3, <2>1, <2>2 DEF Active
<1>11. CASE Install(j)
  <2>1. /\ step[serving] = "install" /\ cfgstr[j] \in Passing /\ tmpConf = {cfgstr[j]}
    BY <1>1, <1>4, <1>11 DEF Install, Command, Execute, CalmAt
  <2>2. myConf' = {cfgstr[j]}
    BY <1>1, <1>3, <1>11, <2>1 DEF Install, Command, Execute, Mishap, history
  <2> QED
    BY <1>1, <2>1, <2>2 DEF Active
<1>12. CASE Say(j)
  <2>1. step[serving] \in {"say0", "say1"} /\ step'[serving] = "rmConf"
    BY <1>1, <1>4, <1>12 DEF Say
  <2>2. UNCHANGED <<myConf, backup>>
    BY <1>12 DEF Say, files
  <2> QED
    BY <1>3, <2>1, <2>2 DEF Active
<1> QED
  BY <1>2, <1>6, <1>7, <1>8, <1>9, <1>10, <1>11, <1>12 DEF Script

LEMMA AskRefines ==
  ASSUME NginxInv, ~disturbed, NEW j \in Jobs, NEW c \in Configs, NginxTest(j, c)
  PROVE  Store!Ask(c)
<1> USE NginxAssumption
<1>1. serving = NoJob /\ serving' = j /\ answer' = <<>> /\ UNCHANGED <<files, running>>
  BY DEF NginxTest
<1>2. cfgstr'[j] = c /\ step'[j] = "append"
  BY DEF NginxTest, NginxInv, NginxTypeOK
<1>3. Active' = Active
  BY <1>1, <1>2 DEF Active, files
<1> QED
  BY <1>1, <1>2, <1>3 DEF Store!Ask

LEMMA AnswerRefines ==
  ASSUME NginxInv, ~disturbed, NEW j \in Jobs, NginxTestAnswer(j)
  PROVE  Store!Answer
<1> USE NginxAssumption
<1>1. serving = j /\ step[j] = "exit" /\ j \in Live
  BY DEF NginxTestAnswer, Live
<1>2. CalmAt(j) /\ cfgstr[j] \in Configs /\ SoundAt(j) /\ {cfgstr[j]} # NoFile
  BY <1>1, CalmScript DEF NginxInv, SoundFiles
<1>3. backup = NoFile /\ (cfgstr[j] \in Passing => myConf = {cfgstr[j]})
  BY <1>1, <1>2 DEF CalmAt, SoundAt
<1>4. (1 \in said[j]) = (cfgstr[j] \in Passing)
  BY <1>1, <1>2 DEF CalmAt
<1>5. /\ answer' = <<cfgstr[j], cfgstr[j] \in Passing>> /\ serving' = NoJob
      /\ UNCHANGED <<running, myConf, backup>>
  BY <1>4 DEF NginxTestAnswer, files
<1>6. Active = myConf /\ Active' = myConf
  BY <1>1, <1>3, <1>5 DEF Active
<1> QED
  BY <1>1, <1>2, <1>3, <1>5, <1>6 DEF Store!Answer

LEMMA ReloadRefines ==
  ASSUME NginxInv, ~disturbed, ReloadNginx
  PROVE  Store!Reload
<1>1. serving = NoJob /\ Clean
  BY DEF ReloadNginx, NginxInv, CalmClean
<1>2. Active = myConf /\ Active' = myConf /\ ConfD = Contents(myConf)
  BY <1>1 DEF Active, ReloadNginx, files, Clean, ConfD, Contents
<1>3. UNCHANGED <<serving, cfgstr, answer>>
  BY DEF ReloadNginx
<1>4. running' = IF running # NoFile /\ Accepted(ConfD) THEN ConfD ELSE running
  BY DEF ReloadNginx
<1> QED
  BY <1>1, <1>2, <1>3, <1>4
     DEF Store!Reload, Store!Valid, Store!Contents, Accepted, Contents

LEMMA StepRefines ==
  NginxInv /\ [NginxNext]_nginxVars => [Store!StoreNext]_(Store!storeVars)
<1> SUFFICES ASSUME NginxInv, [NginxNext]_nginxVars
             PROVE  [Store!StoreNext]_(Store!storeVars)
  OBVIOUS
<1>1. CASE disturbed \/ disturbed'
  BY <1>1 DEF Store!StoreNext
<1>2. CASE UNCHANGED nginxVars
  BY <1>2 DEF nginxVars, files, history, Store!storeVars, Active
<1>3. CASE NginxNext /\ ~disturbed /\ ~disturbed'
  <2>1. ASSUME NEW j \in Jobs, Script(j) PROVE [Store!StoreNext]_(Store!storeVars)
    BY <1>3, <2>1, CommandRefines
  <2>2. ASSUME NEW j \in Jobs, NEW c \in Configs, NginxTest(j, c) PROVE Store!StoreNext
    BY <1>3, <2>2, AskRefines DEF Store!StoreNext
  <2>3. ASSUME NEW j \in Jobs, NginxTestAnswer(j) PROVE Store!StoreNext
    BY <1>3, <2>3, AnswerRefines DEF Store!StoreNext
  <2>4. CASE ReloadNginx
    BY <1>3, <2>4, ReloadRefines DEF Store!StoreNext
  <2>5. CASE KillServer \/ Reboot
    BY <1>3, <2>5 DEF KillServer, Reboot, Mishap
  <2>6. CASE RestartServer
    BY <2>6 DEF RestartServer, files, history, Store!storeVars, Active
  <2> QED
    BY <1>3, <2>1, <2>2, <2>3, <2>4, <2>5, <2>6 DEF NginxNext
<1> QED
  BY <1>1, <1>2, <1>3

(* nginx.sh, undisturbed and again once one script has run alone, is a      *)
(* place for one configuration: a text that passes - it is good, or nginx   *)
(* quotes "successful" from it in its complaint - replaces the old one, any *)
(* other leaves it, and the answer says which; nginx loads only good ones.  *)
THEOREM ScriptIsAStore == NginxSpec => ImplementsConfigStore
<1> QED
  BY StoreInitHolds, StepRefines, Invariance, PTL
     DEF NginxSpec, ImplementsConfigStore, Store!StoreSpec
=============================================================================
