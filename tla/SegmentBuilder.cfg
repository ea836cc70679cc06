CONSTANTS
  App = {a, b}
  None = None
  TickInterval = 2
  MaxGap = 3
  MaxSegment = 4
  MaxStepBack = 2
  MaxCorrections = 1
  StoreMayFail = TRUE
  Horizon = 7
SPECIFICATION Spec
SYMMETRY Symmetry
INVARIANTS
  TypeOK
  Chronological
  OnlyObservedTimeCredited
  LossBounded
PROPERTIES
  LedgerKept
