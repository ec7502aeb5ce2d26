CONSTANTS
  u1 = u1
  u2 = u2
  g = g
  a = a
  b = b
  None = None
  Tasks <- FourTasks
  LaneOf <- FourLanes
  GroupMember <- GroupTurns
  WatchdogMs = 2
  GraceMs = 2
  TimerSlack = 1
SPECIFICATION FairSpec
INVARIANTS QueueConsistent ExclusiveRun QueueAttended
PROPERTIES EscapeAfterFullWait DrainSeesRunsEnd ImplementsExecutor
           UserTurnStarts EndsAreHeard
CHECK_DEADLOCK FALSE
