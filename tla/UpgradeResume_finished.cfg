SPECIFICATION Spec
CONSTANTS
  Agents = {a1, g1}
  Groups = {g1}
  MaxMarks = 2
  MaxQuiesces = 2
  MaxCrashes = 1
INVARIANTS RemainUntilFinished
CHECK_DEADLOCK FALSE
