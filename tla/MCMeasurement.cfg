CONSTANTS
    WorkerCount = 1
    LeaveProcesses = FALSE
    MaxLaunches = 2
    MaxCommands = 3
CHECK_DEADLOCK FALSE
SPECIFICATION FairSpec
INVARIANTS TypeOK AggregateUnmixed NoStrayWorkers
PROPERTIES  TestEnds
