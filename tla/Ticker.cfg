CONSTANTS
  Session = {d1, d2, tty}
  Console = {tty}
  d1 = d1
  d2 = d2
  tty = tty
  None = None
  LongestGrace = 2
  Policies <- SettingPolicies
  EditsAllowed = TRUE
  LockMayFail = TRUE
  TerminateMayFail = TRUE
  StoreMayFail = TRUE
  Unreadable = {d2}
  ClockBack = 1
SPECIFICATION FairSpec
INVARIANT TypeOK
PROPERTIES EndedOnlyAfterGrace LockIsAnEdge EscalationKept LockedInTheEnd RestoredInTheEnd GraceEnds
