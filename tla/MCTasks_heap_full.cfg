\* The heap has room for the stacks of two tasks and one stack more.
SPECIFICATION Spec
CONSTANTS
    idle = idle
    shell = shell
    child = child
    grandchild = grandchild
    null = null
    Tasks = {idle, shell, child, grandchild}
    Idle = idle
    First = shell
    Null = null
    StackRoom = 5
    MaxPid = 5
    TickPoints <- OutsideWindows
INVARIANT StacksNotShared
