SPECIFICATION Spec
CONSTANTS
  None = None
  Torn = Torn
  StackOf <- MCStackOf
  OtherAdmits = FALSE
  Managed <- MCManaged
  Shipped <- MCShipped
  Placements <- MCPlacements
  OwnLines <- MCOwnLines
  MaxLines = 2
  MaxAccidents = 1
INVARIANTS
  TypeOK
  OthersUntouched
  BackupIsOriginal
  AdultsGetIn
  WordKept
  DoctorIsRight
