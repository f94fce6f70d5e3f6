CONSTANTS
  i1 = i1
  i2 = i2
  bad = bad
  ks = ks
  vm = vm
  Items = {i1, i2, bad}
  NoSource = {bad}
  Ks = ks
  Others = {vm}
  Revs = {1, 2}
  Absent = Absent
  Removable <- OneOfEach
  SameName <- SameNames
  TarWorks <- May
  Answers <- May
  MaxRuns = 3
SPECIFICATION Spec
CHECK_DEADLOCK FALSE
INVARIANTS
  TypeOK
  KsEmbedsSetup
  FinishedCurrent

