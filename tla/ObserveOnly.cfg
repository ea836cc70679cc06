CONSTANTS
  Session = {d1}
  Console = {}
  d1 = d1
  d2 = d2
  tty = tty
  None = None
  LongestGrace = 2
  Policies <- ObservingPolicies
  EditsAllowed = FALSE
  LockMayFail = FALSE
  TerminateMayFail = FALSE
  StoreMayFail = FALSE
  Unreadable = {}
  ClockBack = 0
SPECIFICATION Spec
PROPERTY ObserveOnly
