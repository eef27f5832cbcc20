SPECIFICATION JournalSpec
CONSTANTS
    Fragment = {x, y}
    MaxFragments = 2
    MaxUpdates = 2
INVARIANTS Transacted
