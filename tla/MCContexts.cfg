SPECIFICATION Spec
CONSTANTS
  FileObjects = {f1, f2}
  FileSystemObjects = {s1, s2}
  Null = Null
INVARIANTS NeverDangling PairUnlessRaced ErrnoSurvives
CHECK_DEADLOCK FALSE
