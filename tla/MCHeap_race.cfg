\* Two tasks in the allocator at once, as preemption inside syscalls allows.
SPECIFICATION Spec
CONSTANTS
    shell = shell
    child = child
    Callers = {shell, child}
    HeapSize = 17
    HeaderWords = 3
    Requests = {17}
INVARIANT HeldDisjoint
