SPECIFICATION Spec
CONSTANTS
  Robot = {1, 2, 3}
  Joiners = {1}
  Dep = {1}
  Version <- MCVersion
  Unknown = "unknown"
  Release <- MCRelease
  Compat <- SecondExcluded
  Strategy <- MCNoRollback
  Gates <- MCGates
  MaxBattery = 1
  Args <- FirstLongMission
  Manifest <- MCManifest
  MayFail = {"preflight", "download", "apply", "partial_apply", "no_hooks", "verify"}
  PauseFrom = {}
  ResumeFrom = {}
  Faults = {}
  MaxFaults = 0
INVARIANTS
  NeverUpdatesMidMission
  StopsOnlyAfterFailures
  CanaryCount
