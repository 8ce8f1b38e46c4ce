\* RwLock: three guards and a word whose reader count saturates at two, so that
\* the reader-overflow panic is reachable.
\* Spinlock: four harts, one inside, the others spinning, trying or leaving.
\* TicketLock: three harts, two of which also try_lock(), and few enough tickets
\* that the counters wrap many times.
\* Deque: the owner pushes and pops, two thieves steal; the buffer grows from 2 to
\* 4 to 8.
SPECIFICATION MCSpec
CONSTANTS
    Clients = {c1, c2, c3}
    WRITER_BIT = 3
    SpinHarts = {h1, h2, h3, h4}
    NoHart = NoHart
    Harts = {h1, h2, h3}
    TryHarts = {h1, h2}
    NOBODY = nobody
    TICKETS = 7
    DequeHarts = {h1, h2, h3}
    Owner = h1
    Pushers = {h1}
    INITIAL_CAPACITY = 2
    MAX_PUSHES = 5
INVARIANTS SpinExclusion
PROPERTIES
    NoReaderOvertakesWriter ImplementsReadersWriter WaitingWriterGetsIn
    PanicOnlyWhenReentrant
    FirstComeFirstServed ServedUnlessAbandoned
    ImplementsWorkDeque
\* A hart that re-enters the spinlock spins for ever, and after an abandoned ticket
\* every hart may end up waiting.
CHECK_DEADLOCK FALSE
