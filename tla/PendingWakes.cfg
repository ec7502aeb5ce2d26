SPECIFICATION FairSpec
CONSTANTS
  s = s
  c = c
  t = t
  x = x
  a = a
  g = g
  None = None
  Works <- OneOfEach
  AgentOf <- OfOneAndGroup
  KindOf <- EachKind
  Groups <- JustG
  MaxUpsets = 1
  Together <- PairOrGroup
  MaxWatchers = 1
INVARIANTS OwedIsMarked WakesFollowed
PROPERTIES DeletedAreLeftAlone WakesArrive
CHECK_DEADLOCK FALSE
