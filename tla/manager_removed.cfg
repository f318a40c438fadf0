\* Expected to fail on RemovedDoNotSurvive; see the README.
SPECIFICATION Spec
CONSTANTS
  Sessions = {s1}
  Pollers = {}
  KillDelay = 2
  ShutdownGrace = 3
INVARIANT RemovedDoNotSurvive
CHECK_DEADLOCK FALSE
