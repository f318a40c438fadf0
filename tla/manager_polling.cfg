\* One session and one polling client, with what must eventually happen.
SPECIFICATION FairSpec
CONSTANTS
  Sessions = {s1}
  Pollers = {p1}
  KillDelay = 2
  ShutdownGrace = 3
INVARIANT TypeOK
PROPERTIES
  PollsMoveForward
  ListAnswered
  SpawnAnswered
  RemovedShellDies
  ShutdownEnds
  DeathReported
CHECK_DEADLOCK FALSE
