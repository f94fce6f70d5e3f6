CONSTANTS
  a = a
  b = b
  net1 = net1
  net2 = net2
  None = None
  Stamp = Stamp
  Top = Top
  NoName = NoName
  Groups <- MCGroups
  Names <- MCNames
  Nets <- MCNets
  Contexts <- GoodContexts
  MaxRuns = 3
SPECIFICATION Spec
CHECK_DEADLOCK FALSE
INVARIANTS
  TypeOK
  ConfigWritten
  DeclaredGuestsBuilt
  XmlMatchesGuests
  ForcedNetsCurrent
  MakefileGuestsExist
  RetryRepairs
  MemoCurrent
PROPERTIES
  KeepsWithoutForce
