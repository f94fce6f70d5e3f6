CONSTANTS
  g1 = g1
  g2 = g2
  other = other
  Guests = {g1}
  Nics <- NicsApart
  Within <- Exact
  UpdateWorks <- Fails
  DefineWorks <- May
  ReloadWorks <- Works
  Runs <- Works
  HasDomain = TRUE
  HasDhcp = TRUE
  MaxTries = 2
SPECIFICATION Spec
CHECK_DEADLOCK FALSE
INVARIANT StampedServed
