\* Ticks come anywhere but inside the windows that break task.c.
SPECIFICATION Spec
CONSTANTS
    idle = idle
    shell = shell
    child = child
    grandchild = grandchild
    null = null
    Tasks = {idle, shell, child, grandchild}
    Idle = idle
    First = shell
    Null = null
    StackRoom = 8
    MaxPid = 5
    TickPoints <- OutsideWindows
INVARIANTS
    TypeOK
    OwnContext
    UniquePids
    StacksNotShared
    TssIsRunning
    NothingDangles
PROPERTIES
    RoundRobinKept
    EveryTaskRuns
    SyscallsFinish
