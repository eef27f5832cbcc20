SPECIFICATION Spec
CONSTANTS
    t = t
    j = j
    c1 = c1
    c2 = c2
    h1 = h1
    h2 = h2
    Path = {t}
    Hash = {h1, h2, UnableHash}
    Content = {c1, c2}
    Garbage = Garbage
    Absent = Absent
    UnableHash = UnableHash
    Meow <- MCMeow
    Tool <- MCTool
    Reported <- MCReported
    Prefix <- MCPrefix
    Symlink = {}
    Unreadable = {}
    MaxSets = 1
    MaxEdits = 1
    MaxFaults = 0
INVARIANTS StoredAsRecorded
