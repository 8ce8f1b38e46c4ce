SPECIFICATION MCSpec
CONSTANTS
    RING = 8
    TERMINAL_INPUT_MAX = 3
    Sessions <- MCSessions
    Program <- MCProgram
    Letters <- MCLetters
    MAX_PRINTS = 1
    MAX_LATE = 2
INVARIANTS
    ClickLands
    
PROPERTIES
    TerminalReturns
