\* Expected to fail on NoOrphans; see the README.
SPECIFICATION Spec
CONSTANTS
  Sessions = {s1}
  Pollers = {}
  KillDelay = 2
  ShutdownGrace = 3
INVARIANT NoOrphans
CHECK_DEADLOCK FALSE
