SPECIFICATION FairSpec
CONSTANTS
  Robot = {1}
  MaxRegister = 1
  MaxFaults = 1
  Release = {1}
  MaxBuild = 2
INVARIANTS
  ArtifactsTypeOK
  LockedOutOnlyByFault
  LandedVerified
  ServedWhole
  PartsHaveOwners
PROPERTIES
  Bootstraps
  VersionRecovers
  Delivered
