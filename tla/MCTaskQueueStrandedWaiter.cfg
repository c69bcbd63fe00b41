CONSTANTS
  ThreadCount = 2
  TerminalCount = 2
  MaxRunning = 1
  MaxResumes = 2
  IoThread = {io1}
SPECIFICATION Spec
INVARIANT NoStrandedWaiter
CHECK_DEADLOCK FALSE
