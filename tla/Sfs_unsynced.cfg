\* Two files written one after the other and synced once, as klogd and the file
\* system calls do.
SPECIFICATION Spec
CONSTANTS
    Names = {"a", "b"}
    DirNames = {}
    Values <- Contents
    Marker <- OneBlock
    SEC_DIR_COUNT = 2
    ENTRIES_PER_SECTOR = 1
    CACHE_MAX_BLOCKS = 2
    BLOCKS = 3
    MAX_CRASHES = 0
    Calls = {"write", "sync"}
INVARIANT SyncedIsDurable
