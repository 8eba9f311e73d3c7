CONSTANTS
  n1 = n1 n2 = n2 j1 = j1 j2 = j2 gpu_cap = gpu_cap
  Nodes = {n1, n2}
  JobNames = {j1, j2}
  Gpu = gpu_cap
  Caps <- MCCaps
  NodeCaps <- MCNodeCaps
  BatchNames <- MCBatchNames
  Batches <- OnePlain
  RequestCap = 2
  CancelCap = 2
  MayFailBuild <- GpuNodeMayFail
  Mishaps = {"handoff"}
  MaxMishaps = 1
  MaxBatches = 1
  MaxKills = 0
SPECIFICATION FairSpec
PROPERTY RunningJobsSettle
