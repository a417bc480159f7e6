SPECIFICATION FairSpec
CONSTANTS
    c1 = c1
    c2 = c2
    n1 = n1
    n2 = n2
    b1 = b1
    Dir = Dir
    NoCaller = NoCaller
    Callers <- MCCallers
    Files <- MCFiles
    Northbound <- MCNorthbound
    Southbound <- MCSouthbound
    Assigned <- MCAssigned
    Archive <- MCArchive
    Stores <- MCStores
INVARIANTS
    TypeOK
    SettledComplete
    ListCompleteAlone
    QueryWhole
PROPERTIES
    StaysComplete
    PartialHeals
