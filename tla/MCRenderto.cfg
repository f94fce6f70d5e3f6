CONSTANTS
  build = build
  library = library
  render = render
  o1 = o1
  o2 = o2
  o3 = o3
  Cmds = {build, library, render}
  Outs = {o1, o2, o3}
  Jobs <- MCJobs
  Kind <- MCKind
  DirOf <- MCDirOf
  Missing = {o2, o3}
  Answers = {TRUE, FALSE}
  Mixed = Mixed
  Nobody = Nobody
SPECIFICATION Spec
CHECK_DEADLOCK FALSE
INVARIANTS
  CollidesWithOthers
  DoneComplete
PROPERTIES
  CommandsEnd
