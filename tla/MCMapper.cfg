CONSTANTS
  Entries = 2
  MaxTables = 16
  FirstTables = {2}
  Pages = {31, 32, 33, 34}
  UserPages <- MCSameTable
  MaxSpaces = 3
SPECIFICATION Spec
INVARIANTS
  
  WritableIffUnshared
  
PROPERTIES
  
  FaultsKeepData
\* Running out of memory stops the system.
CHECK_DEADLOCK FALSE
