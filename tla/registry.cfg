\* Two requests at a time while the file is written or deleted twice.
SPECIFICATION RegSpec
CONSTANTS
  Threads = {t1, t2}
  Nobody = nobody
  MaxEdits = 2
INVARIANTS
  RegTypeOK
  SomebodyMoves
  CacheIsCurrent
PROPERTIES
  AvailableIsFresh
  LaunchMatches
\* main gives up on an invalid file.
CHECK_DEADLOCK FALSE
