SPECIFICATION HealthSpec
CONSTANTS
  Schedules = {{3, 5, 8}}
  RefreshGrace = 1
  RefreshEarly = 2
  RefreshStaleSlack = 2
  Week = 4
  UnscheduledStaleAfter = 4
  MaxTime = 9
  MaxEvents = 6
  MaxWait = 0
INVARIANT RuleThree
CHECK_DEADLOCK FALSE
