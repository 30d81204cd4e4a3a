SPECIFICATION Spec
CONSTANTS
  Robot = {1, 2}
  Joiners = {}
  Dep = {1}
  Version <- MCVersion
  Unknown = "unknown"
  Release <- MCRelease
  Compat <- AllCompatible
  Strategy <- MCCanaryThenAll
  Gates <- MCBatteryGate
  MaxBattery = 1
  Args <- FirstLongMission
  Manifest <- MCManifest
  MayFail = {"verify"}
  PauseFrom = {}
  ResumeFrom = {}
  Faults = {"lost", "server", "abort", "raise"}
  MaxFaults = 1
INVARIANTS
  TypeOK
  StopsOnlyAfterFailures
  NeverUpdatesMidMission
  StageSettled
  AgentOwnsTask
  RolledBackIsRestored
PROPERTIES
  StatusMonotone
