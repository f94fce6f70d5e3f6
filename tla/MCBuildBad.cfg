CONSTANTS
  a = a
  b = b
  net1 = net1
  net2 = net2
  None = None
  Stamp = Stamp
  Top = Top
  NoName = NoName
  Groups <- MCGroups
  Names <- MCNames
  Nets <- MCNets
  Contexts <- BadContexts
  MaxRuns = 3
SPECIFICATION Spec
CHECK_DEADLOCK FALSE
PROPERTIES
  LoadsBeforeResults
  RunEnds
