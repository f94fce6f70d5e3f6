CONSTANTS
  SystemDir = SystemDir
  Dirs = {d1}
  Sites = {s1, s2}
  DefaultSite = s1
  NoSite = NoSite
  Kinds = {"default", "rhui"}
  ConfsOf <- ConfNames
  FilesIn <- FileNames
  Plain = {"README"}
  MaxDirs = 2
  MaxRuns = 3
SPECIFICATION Spec
CHECK_DEADLOCK FALSE
INVARIANTS
  DoneIsComplete
PROPERTIES
  LinksStay
