\* Programs without bad habits; no tick in the windows of mmap2 and brk.
SPECIFICATION Spec
CONSTANTS
    byte = byte
    path = path
    otherPath = otherPath
    payload = payload
    one = one
    two = two
    log = log
    notes = notes
    version = version
    alpha = alpha
    beta = beta
    zero = zero
    beyond = beyond
    init = init
    motd = motd
    dot = dot
    trailer = trailer
    scratch = scratch
    Null = Null
    Habits = {}
    MAX_FD = 7
    UNIX_SOCKET_COUNT = 5
    UNIX_SOCKET_QUEUE = 1
    Paths = {path, otherPath}
    Bytes = {byte}
    Sizes = {1, 2}
    INET_SOCKET_COUNT = 2
    INET_DATAGRAM_COUNT = 2
    FirstAutomatic = 49152
    Ports = {7, 49152}
    Payloads = {payload}
    RamFiles = {log, notes}
    ProcFiles = {version}
    Text <- TextMC
    NodeSize <- NodeSizeMC
    BLOCK_SIZE = 2
    MAX_BLOCKS_PER_FILE = 2
    TOTAL_BLOCKS = 3
    OFFSETS = 7
    Values = {alpha, beta}
    Zero = zero
    Beyond = beyond
    Counts = {0, 1, 5}
    Moves <- MovesMC
    MAX_OPEN = 2
    Tasks = {one, two}
    TickPoints = {"user", "return"}
    TOP = 12
    PAGE = 2
    FirstBreak = 2
    Lengths = {1, 4}
    Increments <- IncrementsMC
    Archives <- ArchivesMC
    HEADER = 2
    MAX_FILES = 2
    FILE_MAX = 2
    InitName = init
    TrailerName = trailer
    DotNames = {dot}
    Nul = zero
    Scratch = scratch
SYMMETRY AlikeMC
INVARIANTS
    TypeOK
    
    NoClientForgotten
    OneListener
    MailKept
    PortsApart
    GivenOnce
    InitStarts
PROPERTIES
    StreamsKept
    
    
