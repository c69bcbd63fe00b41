CONSTANTS
  ThreadCount = 2
  TerminalCount = 2
  MaxRunning = 1
  MaxResumes = 2
  IoThread = {io1}
SPECIFICATION FairSpec
INVARIANTS TypeOK SlotConservation AdmissionBound SingleOwner
PROPERTIES GateSpec JoinCompletes
CHECK_DEADLOCK FALSE
