\* The owner pushes and pops, two thieves steal while the buffer grows.
SPECIFICATION DequeSpec
CONSTANTS
    DequeHarts = {h1, h2, h3}
    Owner = h1
    Pushers = {h1}
    INITIAL_CAPACITY = 2
    MAX_PUSHES = 3
INVARIANTS ClonesInitialisedSlots
