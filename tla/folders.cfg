\* Two requests, two paths below the root, and a history of two entries that
\* three directories compete for.
SPECIFICATION Spec
CONSTANTS
  Threads = {t1, t2}
  Nobody = nobody
  Torn = torn
  Cap = 2
  Dirs <- Tree
  Home <- HomeDir
  Names <- Typed
  MaxAdds = 3
SYMMETRY Symmetry
INVARIANTS
  TypeOK
  HistoryKept
PROPERTIES
  NewFolderIsNew
  PickerHonest
