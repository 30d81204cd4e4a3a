SPECIFICATION FairSpec
CONSTANTS
  Robot = {1, 2}
  Joiners = {}
  Dep = {1}
  Version <- MCVersion
  Unknown = "unknown"
  Release <- MCRelease
  Compat <- AllCompatible
  Strategy <- MCDefault
  Gates <- MCGates
  MaxBattery = 1
  Args <- AllParked
  Manifest <- MCManifest
  MayFail = {"verify"}
  PauseFrom = {}
  ResumeFrom = {}
  Faults = {}
  MaxFaults = 0
PROPERTIES
  KeepsPromise
  Settles
  RollbackEnds
