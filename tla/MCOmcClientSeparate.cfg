SPECIFICATION Spec
CONSTANTS
    c1 = c1
    c2 = c2
    good = good
    other = other
    bad = bad
    s1 = s1
    s2 = s2
    NoArchive = NoArchive
    Free = Free
    Callers <- MCCallers
    Archives <- MCArchives
    Invalid <- MCInvalid
    Processes <- MCProcesses
    ProcessOf <- MCSeparate
    NoResources <- MCNoResources
INVARIANTS
    OwnArchive
