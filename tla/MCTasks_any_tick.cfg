\* Ticks come anywhere, as they do in the code.
SPECIFICATION Spec
CONSTANTS
    idle = idle
    shell = shell
    child = child
    grandchild = grandchild
    null = null
    Tasks = {idle, shell, child, grandchild}
    Idle = idle
    First = shell
    Null = null
    StackRoom = 8
    MaxPid = 5
    TickPoints <- AnyPoint
INVARIANT UserContextKept
CHECK_DEADLOCK FALSE
