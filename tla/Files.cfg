SPECIFICATION Spec
CONSTANTS
    NumHarts = 2
    HostFiles <- MCHostFiles
    HostDirs <- MCHostDirs
    WRITE_CHUNKS = 2
    MAX_LATE = 2
    SfsFiles <- MCSfsFiles
    SFS_ENTRIES = 3
    READ_BUF = 2
    LIST_BUF = 3
    LS_ENTRIES = 3
    Sessions <- MCSessions
    ShellHart = 1
    ShellCommands <- MCShellCommands
    BUFFER_SIZE = 2
    HISTORY_SIZE = 2
    Keys <- MCKeys
    Follow = "tail -f "
    Space = " "
INVARIANTS
    FidsReleased
    
    LineIsShown
    

    
    
CHECK_DEADLOCK FALSE
