SPECIFICATION Spec
CONSTANTS
  Batches = {1, 2}
  Versions = {1}
  MaxJobs = 1
  MaxFiles = 1
  MaxKills = 1
  MaxMishaps = 1
  Mishaps = {"late"}
INVARIANTS
  StatesSynced
