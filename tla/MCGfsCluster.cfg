CONSTANTS
  N = 3
  HasConf = {1, 2, 3}
  HasKey = {1, 2}
  Answers = {TRUE, FALSE}
  MaxRuns = 3
SPECIFICATION Spec
CHECK_DEADLOCK FALSE
INVARIANTS
  ClvmdNeedsCman
  VolumeAfterOwn
  DoneIsFormatted
