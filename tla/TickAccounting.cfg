CONSTANTS
  App = {a}
  a = a
  None = None
  TickInterval = 2
  MaxGap = 4
  MaxSegment = 3
  Quota = 2
  Warnings = {1, 2}
  IdleThreshold = 3
  NotifyAfter = 1
  AgentMayFail = TRUE
  DayLength = 9
  BonusAmount = 1
  MaxGrants = 1
  MaxLosses = 1
  Horizon = 11
SPECIFICATION Spec
INVARIANTS TypeOK OverrunBounded WarningsEscalate DenialLasts
