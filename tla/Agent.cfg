CONSTANTS
  MaxLeft = 2
  WarnAt = {0, 1}
  None = None
  MayNotShow = TRUE
  FocusFreshness = 1
  ReportMaxAge = 0
  QuietPeriod = 1
  StoreMayFail = FALSE
  MayBeKilled = TRUE
SPECIFICATION FairSpec
INVARIANTS TypeOK ScreenAgrees RequestKept
PROPERTIES WarnedWhenDue RequestHeard ToldInTheEnd SilenceNoticed
