\* Two files and a directory, a cache of two blocks, two one-entry directory sectors.
SPECIFICATION Spec
CONSTANTS
    Names = {"a", "b"}
    DirNames = {"d/"}
    Values <- Contents
    Marker <- OneBlock
    SEC_DIR_COUNT = 2
    ENTRIES_PER_SECTOR = 1
    CACHE_MAX_BLOCKS = 2
    BLOCKS = 3
    MAX_CRASHES = 1
    Calls = {"write_sync", "write", "sync", "mkdir", "remove", "list"}
INVARIANTS SettledIsDurable NothingShared
