CONSTANTS
  Pkgs = {p1, p2}
  Confs = {c1, c2}
  Ovrrd = Ovrrd
  Missing = Missing
  Blank = Blank
  MaxRuns = 5
  MaxEdits = 2
SPECIFICATION Spec
CHECK_DEADLOCK FALSE
INVARIANTS
  FirstKept
PROPERTIES
  EraseRestores
