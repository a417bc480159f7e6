SPECIFICATION FairSpec
CONSTANTS
    c1 = c1
    c2 = c2
    Callers <- MCCallers
    Kinds <- MCKinds
    Names <- MCNames
    Namespaces <- MCNamespaces
    Default = "default"
    AllPlaces = ""
    Error = Error
    Selections <- MCSelections
    NoMapper = NoMapper
    MaxChanges = 3
INVARIANTS
    FoundIfKnown
PROPERTIES
    ImplementsReads
    
