\* Expected to fail on StampMeansLoaded; see the README.
SPECIFICATION Spec
CONSTANTS
  Threads = {t1}
  Nobody = nobody
  MaxEdits = 2
INVARIANT StampMeansLoaded
CHECK_DEADLOCK FALSE
