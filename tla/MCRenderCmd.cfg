CONSTANTS
  Nowhere = Nowhere
  Stdin = Stdin
  Earlier = Earlier
  Blank = Blank
  Files = {1, 2, 3}
  c = c
  x = x
  Patterns = {c, x}
  Matches <- MCMatches
  Malformed = {malformed}
  Holds <- MCHolds
  Strings = {".", "/cwd", "t", "/cwd/t", "/u"}
  DirAt <- MCDirAt
  AbsPath <- MCAbsPath
  Curdir = "."
  Has <- MCHas
  Names = {"a", "b", "c"}
  MaxArgs = 2
SPECIFICATION CmdSpec
CHECK_DEADLOCK FALSE
INVARIANTS
  LaterWins
  FirstDirSearched
PROPERTIES
  KeptUnlessWriting
