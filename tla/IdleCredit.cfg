CONSTANTS
  App = {a}
  a = a
  None = None
  TickInterval = 2
  MaxGap = 2
  MaxSegment = 8
  Quota = 8
  Warnings = {1, 3}
  IdleThreshold = 6
  NotifyAfter = 2
  AgentMayFail = FALSE
  DayLength = 20
  BonusAmount = 2
  MaxGrants = 1
  MaxLosses = 0
  Horizon = 9
SPECIFICATION Spec
PROPERTY CreditStopsWhenIdleBegan
