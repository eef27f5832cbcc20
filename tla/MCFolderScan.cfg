SPECIFICATION Spec
CONSTANTS
    a = a back = back tail = tail slash = slash
    Name = {a, back, tail, slash}
    Tree <- MCTree
    Parts <- MCParts
    Bare <- MCBare
    MaxDepth = 3
    MaxEdits = 2
    MaxListed = 4
INVARIANTS TypeOK FoundExactly FoldersMade
PROPERTIES ScanEnds
