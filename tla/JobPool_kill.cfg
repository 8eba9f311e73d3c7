CONSTANTS
  n1 = n1 n2 = n2 j1 = j1 j2 = j2 gpu_cap = gpu_cap
  Nodes = {n1, n2}
  JobNames = {j1, j2}
  Gpu = gpu_cap
  Caps <- MCCaps
  NodeCaps <- MCNodeCaps
  BatchNames <- MCBatchNames
  Batches <- SameName
  RequestCap = 2
  CancelCap = 2
  MayFailBuild <- GpuNodeMayFail
  Mishaps = {"keepalive", "building", "handoff", "bind", "late"}
  MaxMishaps = 1
  MaxBatches = 2
  MaxKills = 2
SPECIFICATION Spec
INVARIANT KillReachesJobs
