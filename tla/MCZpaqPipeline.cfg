SPECIFICATION Spec
CONSTANTS
    Threads = 2
    Blocks = 5
INVARIANTS TypeOK InOrder QueueNotFull
PROPERTIES Terminates
