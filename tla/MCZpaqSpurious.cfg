SPECIFICATION SpuriousSpec
CONSTANTS
    Threads = 2
    Blocks = 5
INVARIANT QueueNotFull
