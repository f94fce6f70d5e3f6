CONSTANTS
  n1 = n1
  n2 = n2
  n3 = n3
  Nets = {n1, n2, n3}
  Sources = {n1, n2}
  Within <- Exact
  VirshWorks <- May
  PathAbsolute = TRUE
  MaxTries = 2
SPECIFICATION Spec
CHECK_DEADLOCK FALSE
INVARIANTS
  TypeOK
  FirstTryRegisters
PROPERTIES
  FirstTrySurvives
  FilesStay
