\* One echo request at a time and one packet per socket, two ids for queries, two receive
\* descriptors: a frame can wait behind one that is too long.
SPECIFICATION FairSpec
CONSTANTS
    Procs <- MCProcs
    Wasm <- MCWasm
    Commands <- MCCommands
    NoFrame <- MCNoFrame
    RX_DESC_COUNT = 2
    TX_DESC_COUNT = 1
    PINGS = 1
    QUEUE = 1
    TXIDS = 2
    LOAD = 1
INVARIANTS ResolvedForHost RingsInStep 
 
