CONSTANTS
  Process = {p1, p2}
  Inode = {i1, i2, i3}
  Rules = {a, b}
  MaxVersion = 2
  Legacy <- OldRow
  Empty = Empty
  Torn = Torn
  Typo = Typo
  None = None
  a = a
  b = b
SYMMETRY Symmetry
SPECIFICATION Spec
INVARIANTS TypeOK OldOrNew
PROPERTIES VersionGrows RulesStay
