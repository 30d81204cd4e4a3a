SPECIFICATION Spec
CONSTANTS
  Robot = {1}
  Joiners = {}
  Dep = {1}
  Version <- MCVersion
  Unknown = "unknown"
  Release <- MCRelease
  Compat <- AllCompatible
  Strategy <- MCAllAtOnce
  Gates <- MCGates
  MaxBattery = 1
  Args <- FirstLongMission
  Manifest <- MCManifest
  MayFail = {"verify"}
  PauseFrom = {}
  ResumeFrom = {}
  Faults = {"late", "crash"}
  MaxFaults = 2
INVARIANTS
  RollbackRestores
  RolledBackIsRestored
