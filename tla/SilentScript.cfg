CONSTANTS
  MaxLeft = 4
  WarnAt = {1, 3}
  None = None
  MayNotShow = FALSE
  FocusFreshness = 2
  ReportMaxAge = 1
  QuietPeriod = 2
  StoreMayFail = TRUE
  MayBeKilled = FALSE
SPECIFICATION Spec
INVARIANT SilenceMeansNoScript
