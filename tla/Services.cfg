\* Three harts with a daemon each; two programs or log lines, at any time from any shell.
SPECIFICATION Spec
CONSTANTS
    NumHarts = 3
    Boot <- MCBoot
    Targets = {"klogd"}
    LOG_BUFFER_SIZE = 1
    MAX_PID = 5
    MAX_WORK = 2
INVARIANTS NoTickBeforeBoot  
PROPERTIES QueuedIsPicked
