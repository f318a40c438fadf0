\* Expected to fail on ExitLineLast; see the README.
SPECIFICATION Spec
CONSTANTS
  Gates = {"trust"}
  Done = "done"
  Bytes = {"a", "b"}
  Texts <- OneGate
  LogCap = 4
  TailBytes = 2
  PromptWind = 2
  GateWindowBytes = 3
  ReadMax = 2
  MaxOut = 3
INVARIANT ExitLineLast
CHECK_DEADLOCK FALSE
