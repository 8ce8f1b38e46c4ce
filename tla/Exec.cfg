\* Two harts, three commands.
SPECIFICATION Spec
CONSTANTS
    Harts = {0, 1}
    Affinities <- TwoPlacements
    MAX_COMMANDS = 3
INVARIANTS
    TerminalShowsLastCommand
    
    ContextIsMine

    
\* Programs that overlapped can leave every hart without work.
CHECK_DEADLOCK FALSE
