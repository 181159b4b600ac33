\* Two tasks, no tick in the windows; fewer nodes than descriptors, fewer blocks than files take.
SPECIFICATION Spec
CONSTANTS
    shell = shell
    child = child
    n1 = n1
    n2 = n2
    init = init
    log = log
    long = long
    dev = dev
    gone = gone
    null = null
    Tasks = {shell, child}
    TickPoints = {"idle", "pipeReadEnd"}
    Nodes = {n1, n2}
    MAX_FD = 6
    MAX_FILES = 2
    PIPE_COUNT = 2
    TOTAL_BLOCKS = 3
    MAX_BLOCKS_PER_FILE = 2
    BLOCK_SIZE = 2
    RamPaths = {init, long}
    LongPaths = {long}
    DriverPaths = {dev}
    MissingPaths = {gone}
    Sizes = {1, 4}
    Null = null
SYMMETRY Symmetry
INVARIANTS
    TypeOK
    NodesOwned
    PipesCounted
    
