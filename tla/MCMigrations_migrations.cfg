SPECIFICATION Spec
CONSTANTS
  Process = {1, 2, 3}
  Script <- MCScript
  IfNotExists = {1}
  Database <- MCDatabase
  MaxStops = 2
INVARIANTS
  TypeOK
  VersionsFollowSchema
  ReadySchema
  LoneStartSucceeds
CHECK_DEADLOCK FALSE
