SPECIFICATION Spec
CONSTANTS
    txt = txt doc = doc jpg = jpg alone = alone mp3 = mp3 old = old
    Lepton <- MCLepton
    Precomp <- MCPrecomp
    Copied <- MCCopied
    Older <- MCOlder
    Folder <- MCFolder
    File = {txt, doc, jpg, alone, mp3, old}
    MaxRuns = 2
    MaxDamage = 2
    MaxKill = 1
INVARIANTS TypeOK MissesNothing ZpaqExact
