SPECIFICATION FairSpec
CONSTANTS
  Agents = {a1}
  Groups = {}
  MaxMarks = 2
  MaxQuiesces = 1
  MaxCrashes = 1
PROPERTIES RecoveryCompletes
CHECK_DEADLOCK FALSE
