SPECIFICATION Spec
CONSTANTS
  Process = {1, 2}
  Script <- MCScript
  IfNotExists = {1}
  Database <- MCDatabase
  MaxStops = 0
INVARIANTS
  StartSucceeds
CHECK_DEADLOCK FALSE
