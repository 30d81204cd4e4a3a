SPECIFICATION Spec
CONSTANTS
  Manifests <- MCManifests
  Unknown = "unknown"
  SampleTime = 1
  MaxChanges = 0
INVARIANTS
  HealthyGraphPasses
