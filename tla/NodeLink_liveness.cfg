SPECIFICATION FairSpec
CONSTANTS
  Batches = {1, 2}
  Versions = {1}
  MaxJobs = 2
  MaxFiles = 1
  MaxKills = 1
  MaxMishaps = 2
  Mishaps = {"cut", "crash", "keepalive", "keepalive_job", "mkdir", "create",
             "write", "open"}
INVARIANTS
  NoStandoff
PROPERTIES
  HeldJobsReported
  NodeKeepsAsking
  KilledJobStops
CHECK_DEADLOCK FALSE
