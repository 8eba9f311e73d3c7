SPECIFICATION FairSpec
CONSTANTS
  Commands = {"add", "kill", "status", "pull"}
  SmallFiles = {s1}
  LargeFiles = {l1, l2}
  Folders = {d1}
  Mishaps = {"cut", "pool", "save", "read", "open"}
  MaxMishaps = 3
INVARIANTS
  AddedMeansQueued
  QueuedIsComplete
  PulledWhatWasAsked
  SavedAreOwn
PROPERTIES
  CommandsEnd
  TransfersEnd
CHECK_DEADLOCK FALSE
