CONSTANTS
  g1 = g1
  g2 = g2
  other = other
  Guests = {g1, g2}
  Nics <- NicsApart
  Within <- Exact
  UpdateWorks <- May
  DefineWorks <- May
  ReloadWorks <- May
  Runs <- May
  HasDomain = FALSE
  HasDhcp = TRUE
  MaxTries = 2
SPECIFICATION Spec
CHECK_DEADLOCK FALSE
INVARIANTS
  StampedListed
  FirstTryServed
PROPERTIES
  AttemptEnds
