\* Two sessions, killed and removed in every order with Shutdown; no pollers.
SPECIFICATION Spec
CONSTANTS
  Sessions = {s1, s2}
  Pollers = {}
  KillDelay = 2
  ShutdownGrace = 3
SYMMETRY Symmetry
INVARIANTS
  ShellTracked
  KilledAtMostOnce
  OnlyTheLateSurvive
PROPERTY ImplementsStore
\* The launcher exits for good, and so do the processes.
CHECK_DEADLOCK FALSE
