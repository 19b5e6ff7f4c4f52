SPECIFICATION Spec
CONSTANTS
  Threads = {t1, t2}
  Roots <- RemoteRoots
  IdForms = {"uuid"}
  Paths <- Logged
  Updated = {}
  MaxRoots = 1
  MaxSpans = 1
  MaxCalls = 2
  None = None
  Blank = Blank
CHECK_DEADLOCK FALSE
PROPERTY NothingLost
