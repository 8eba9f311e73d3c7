SPECIFICATION Spec
CONSTANTS
  Batches = {1, 2}
  Versions = {1, 2}
  MaxJobs = 2
  MaxFiles = 1
  MaxKills = 2
  MaxMishaps = 4
  Mishaps = {"cut", "crash", "keepalive", "keepalive_built", "keepalive_job",
             "mkdir", "create", "write", "open", "read", "bind",
             "late"}
INVARIANTS
  NoPanic
  RunsHeldJob
  StoresOwnFiles
  FinishedJobsRan
PROPERTIES
  KillsHeldJob
  KeepsNodeTask
CHECK_DEADLOCK FALSE
