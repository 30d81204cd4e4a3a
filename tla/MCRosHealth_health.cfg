SPECIFICATION Spec
CONSTANTS
  Manifests <- MCManifests
  Unknown = "unknown"
  SampleTime = 3
  MaxChanges = 2
INVARIANTS
  TypeOK
  HealthySound
  PassedRunsTarget
  HealthyGraphPasses
