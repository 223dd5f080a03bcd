SPECIFICATION FairSpec
CONSTANTS
    MAXARGS = 3
    NBUF = 5
    NPROC = 5
    NFD = 5
    Lines <- MCLines
    NLINES = 2
    NFAULTS = 1
    NALLOC = 3
    MAXBRK = 8
    Requests = {1, 2, 4}
    Bytes = {0, 1, 2}
    ArgOpts = {"n"}
    PlainOpts = {"v"}
    ArgWords <- MCArgWords
    NARGS = 3
    Chars = {"/", ".", "a"}
    DIRSIZ = 2
    PATHLEN = 4
    Tree <- MCTree
    MVFAULTS = 2
    GREPBUF = 4
    TAILBUF = 4
    LINEBUF = 3
    NDAYS = 250
    ROWS = 4
    COLS = 4
    DEPTH = 3
    NMOVES = 3
    BLK = 2
    NDIR = 1
    NIND = 3
    NINODES = 6
    NLOG = 2
    IPB = 2
    BPB = 32
    FSSIZE = 30
    SIZES = {0, 3, 5}
    PAGE = 2
    WORD = 2
    VABITS = 4
INVARIANTS
    ShellRight LibraryRight MovesSafely ToolsRight ImageRight CopiesExact
PROPERTIES PipelinesEnd
CHECK_DEADLOCK FALSE
