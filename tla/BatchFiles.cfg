SPECIFICATION Spec
CONSTANTS
  Configs <- SeparateConfigs
  Nodes = {n1, n2}
  Mishaps = {"interrupt", "save", "node", "kill"}
  MaxMishaps = 2
SYMMETRY NodeSymmetry
INVARIANTS
  JobsRunOnTheirFiles
  NeededFilesAreThere
CHECK_DEADLOCK FALSE
