SPECIFICATION Spec
CONSTANTS
  Threads = {t1, t2}
  Roots <- AllRoots
  IdForms = {"hex16"}
  Paths <- Logged
  Updated <- Fed
  MaxRoots = 1
  MaxSpans = 2
  MaxCalls = 3
  None = None
  Blank = Blank
SYMMETRY Symmetry
CHECK_DEADLOCK FALSE
INVARIANTS DumpAgrees ReplacesOnce LastSnapshotSuffices OneTrace ExportUsable
