SPECIFICATION Spec
CONSTANTS
  Robot = {1}
  Joiners = {}
  Dep = {1, 2}
  Version <- MCVersion3
  Unknown = "unknown"
  Release <- MCRelease2
  Compat <- AllCompatible
  Strategy <- MCAllAtOnce
  Gates <- MCGates
  MaxBattery = 1
  Args <- AllParked
  Manifest <- MCManifest3
  MayFail = {"verify"}
  PauseFrom = {}
  ResumeFrom = {}
  Faults = {}
  MaxFaults = 0
INVARIANTS
  VersionOnRecord
  HaltedRollbacksDone
