SPECIFICATION FairSpec
CONSTANTS
    NumCpus = 2
    BootAffinity <- PinnedAffinity
    BootPriority <- NormalPriority
    MAX_PID = 3
    MAX_KILLS = 1
    MAX_QUEUE = 2
INVARIANTS ReadyIsQueued TicksAreDue
 
