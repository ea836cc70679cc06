CONSTANTS
  None = None
  HoursPerDay = 4
  DayStart = 1
  WeekDays = 3
  Lookahead = 5
  Policies <- Households
  Lines <- PamLines
  Zones <- MachineZones
  Horizon = 17
  MaxUsed = 2
  MaxBonus = 1
SPECIFICATION Spec
INVARIANT AvailableAtRetry
