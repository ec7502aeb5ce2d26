CONSTANTS
  Nonces = {n1, n2, n3}
  MAX_RECORDS = 2
  Times = {0, 1, 2}
  MAX_DEGRADED_WINDOWS = 2
SPECIFICATION BothSpec
INVARIANTS LedgerConsistent NotFoundIsTruthful FoundIsTruthful
INVARIANTS GapsCover
PROPERTIES DoubtNeverDecays
SYMMETRY Symmetry
CONSTRAINTS NotAllLost FewNotes
