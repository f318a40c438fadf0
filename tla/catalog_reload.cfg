\* Two requests at a time while the file is written or deleted twice.
SPECIFICATION FairSpec
CONSTANTS
  Threads = {t1, t2}
  Nobody = nobody
  MaxEdits = 2
INVARIANTS
  StampMeansLoadedUnlessOvertaken
PROPERTIES
  NeverRollsBack
  LoadedInTheEnd
  CallsReturn
\* main gives up on an invalid file.
CHECK_DEADLOCK FALSE
