\* One task allocates and frees at a time: the kernel before its first fork.
\* A task_t of 3 words, a buffer of 2, a stack of 5.
SPECIFICATION Spec
CONSTANTS
    shell = shell
    child = child
    Callers = {shell}
    HeapSize = 17
    HeaderWords = 3
    Requests = {5, 12, 17}
INVARIANTS
    TypeOK
    ListTilesHeap
    HeldBlocks
    HeldDisjoint
    Coalesced
PROPERTIES
    NullOnlyWhenNothingFits
    CallsReturn
    PromiseKept
