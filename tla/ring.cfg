\* Three launchers that list one another and themselves, one of them serving the
\* page, and one session.  1 < 2 < 3 stands for 3 s < 4 s < 5 s: only the order
\* matters.
SPECIFICATION FairSpec
CONSTANTS
  Nodes = {a, b, c}
  Here = a
  Leaders = {a, b, c}
  Listed <- Everybody
  Sessions = {s1}
  FanoutTimeout = 1
  PollInterval = 2
  ProxyTimeout = 3
INVARIANTS
  RingTypeOK
  PollsDoNotPileUp
  NotFoundIsGone
PROPERTIES
  RefreshShowsIt
  StaleRowsVanish
  RowsComeUp
