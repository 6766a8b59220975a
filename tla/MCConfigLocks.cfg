SPECIFICATION ConfigSpec
CHECK_DEADLOCK FALSE
CONSTANTS
  Environments <- MCEnvironments
  Files <- MCFiles
  Offered <- MCOffered
  SizeLimit = 1024
  MaxChanges = 3
PROPERTIES NeverOverwritten
