CONSTANTS
    WorkerCount = 1
    LeaveProcesses = FALSE
    MaxLaunches = 1
    MaxCommands = 3
CHECK_DEADLOCK FALSE
SPECIFICATION Spec
INVARIANT AggregateOfFinishedTest
