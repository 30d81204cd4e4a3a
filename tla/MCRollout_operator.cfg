SPECIFICATION Spec
CONSTANTS
  Robot = {1, 2}
  Joiners = {}
  Dep = {1}
  Version <- MCVersion
  Unknown = "unknown"
  Release <- MCRelease
  Compat <- AllCompatible
  Strategy <- MCCanaryThenAll
  Gates <- MCGates
  MaxBattery = 1
  Args <- AllParked
  Manifest <- MCManifest
  MayFail = {"verify"}
  PauseFrom = {"running", "paused", "rolling_back", "halted", "completed"}
  ResumeFrom = {"running", "paused", "rolling_back", "halted", "completed"}
  Faults = {}
  MaxFaults = 0
INVARIANTS
  UniqueTask
  BlastRadius
