\* Five bytes of output, cut into reads of one or two: the cap and the gate
\* window are both passed, two gates may come in one read, a prompt may be cut in
\* two and its first half trimmed away, and the shell and a claude that it forked
\* may exit at any time.  What comes after the gate window is "b", which
\* would complete a gate's text if anything looked.
SPECIFICATION FairSpec
CONSTANTS
  Gates = {"trust", "chrome"}
  Done = "done"
  Bytes = {"a", "b"}
  Texts <- Patterns
  LogCap = 4
  TailBytes = 2
  PromptWind = 2
  GateWindowBytes = 3
  ReadMax = 2
  MaxOut = 5
CONSTRAINT PastIsOne
INVARIANTS
  TypeOK
  LogFaithful
  CapMarkedOnce
  TailFresh
  StartupOnly
  GateNotMissed
  AnsweredOnce
  ExitAfterOutput
PROPERTIES
  ExitRecorded
  GateTyped
\* A session ends for good.
CHECK_DEADLOCK FALSE
