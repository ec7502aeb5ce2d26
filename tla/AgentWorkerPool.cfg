SPECIFICATION FairSpec
CONSTANTS
  o1 = o1
  o2 = o2
  o3 = o3
  o4 = o4
  s1 = s1
  s2 = s2
  s3 = s3
  None = None
  Ops <- FourOps
  StoreOf <- ThreeStores
  MaxWorkers = 1
INVARIANTS PoolConsistent
PROPERTIES InUseIsKept NothingHangs
CHECK_DEADLOCK FALSE
