SPECIFICATION Spec
CONSTANTS
    c1 = c1 c2 = c2 c3 = c3 m1 = m1 m2 = m2
    Run = {c1, c2, c3, m1, m2}
    Name <- MCName
    List <- MCList
    Create <- MCCreate
    Rebuild <- MCRebuild
INVARIANTS TypeOK KeepsWithoutOverlap RebuildExact
