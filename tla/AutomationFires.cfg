SPECIFICATION MCSpec
CONSTANTS
  e1 = e1
  e2 = e2
  s1 = s1
  s2 = s2
  l1 = l1
  EventFires = {e1, e2}
  ScheduleFires = {s1, s2}
  LocalEvents = {l1}
  MAX_QUEUED_EVENT_FIRES_PER_AUTOMATION = 2
  MAX_EVENTS_IN_AUTOMATION_WAKE = 2
  AUTOMATION_MAX_RUN_HISTORY = 2
  MaxUpsets = 2
INVARIANTS TypeOK DeliveriesHeld ReportedIsKnown SuccessIsTrue
PROPERTIES FinishedIsNotRerun FiresSettle
CHECK_DEADLOCK FALSE
