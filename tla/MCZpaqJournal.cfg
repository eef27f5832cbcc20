SPECIFICATION JournalSpec
CONSTANTS
    Fragment = {x, y}
    MaxFragments = 3
    MaxUpdates = 3
INVARIANTS JournalTypeOK AllOrNothing FinishedStays
