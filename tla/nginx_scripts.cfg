SPECIFICATION NginxSpec
SYMMETRY NginxSymmetry
CONSTANTS
  good1 = good1  good2 = good2  bad = bad  quoting = quoting  j1 = j1  j2 = j2
  Configs = {good1, good2, bad, quoting}
  Good = {good1, good2}
  Quoting = {quoting}
  NoFile = NoFile
  NoConfig = NoConfig
  Jobs = {j1, j2}
  NoJob = NoJob
  Failing = {"append", "backup", "stage", "test", "judge", "unstageBad", "restore", "dropBackup", "unstageGood", "install", "rmConf", "rmFlag"}
  ServerMayDie = TRUE
  HostMayReboot = TRUE
  MaxMishaps = 2
INVARIANTS NginxTypeOK ScratchClean
PROPERTIES ImplementsConfigStore
