SPECIFICATION Spec
CONSTANTS
    hash = hash big = big jpg = jpg mp3 = mp3
    Job = {hash, big, jpg, mp3}
    Compress <- MCCompress
    Missing <- MCMissing
    Failing <- MCFailing
    Printed <- MCPrinted
    Line <- MCLine
    Threads = 2
    PipeSize = 2
    FdLimit = 18
INVARIANTS TypeOK NoExit TrustedAnswer
PROPERTIES CallsReturn
