CONSTANTS
  Entries = 2
  MaxTables = 16
  FirstTables = {2, 3}
  Pages = {31, 32, 33, 34}
  UserPages <- MCTwoTables
  MaxSpaces = 2
SPECIFICATION Spec
PROPERTIES
  ForkClones
CHECK_DEADLOCK FALSE
