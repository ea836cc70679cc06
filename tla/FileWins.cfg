CONSTANTS
  Process = {p1}
  Inode = {i1, i2, i3}
  Rules = {a}
  MaxVersion = 3
  Legacy <- OldRow
  Empty = Empty
  Torn = Torn
  Typo = Typo
  None = None
  a = a
  b = b
SPECIFICATION Spec
PROPERTY FileWins
