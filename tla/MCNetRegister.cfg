CONSTANTS
  g1 = g1
  g2 = g2
  other = other
  Guests = {g1, g2}
  Nics <- NicsMore
  Within <- Exact
  UpdateWorks <- Works
  DefineWorks <- Works
  ReloadWorks <- Works
  Runs <- Works
  HasDomain = TRUE
  HasDhcp = TRUE
  MaxTries = 2
SPECIFICATION Spec
CHECK_DEADLOCK FALSE
INVARIANTS
  TypeOK
  StampedServed
  StampedDefined
PROPERTIES
  RegistryKept
