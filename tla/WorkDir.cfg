SPECIFICATION Spec
CONSTANTS
  py = py sif = sif sif2 = sif2 j1 = j1 j2 = j2 x = x y = y
  Batches = {py, sif, sif2}
  Jobs = {j1, j2}
  Python = {py}
  Names = {x, y}
  InitFiles <- MCInitFiles
  JobFiles <- MCJobFiles
  Mounts <- MCMounts
  Mishaps = {"cut", "crash", "kill", "spawn", "store", "folder"}
  MaxMishaps = 2
INVARIANTS
  InputsAreOwn
  ResultsAreOwn
  MountsAreThere
CHECK_DEADLOCK FALSE
