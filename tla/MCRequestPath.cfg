SPECIFICATION PathSpec
CONSTANTS
    Lines <- MCLines
    Blank <- MCBlank
    Matching <- MCMatching
    Numbers <- MCNumbers
    DefaultMaxLines = 2
    Windows <- MCWindows
    MaxLog = 5
    Texts <- MCTexts
    PodSpecs <- MCPodSpecs
    NoContainer = NoContainer
    NotRun = NotRun
    Counts <- MCCounts
    DefaultCount = 2
    MaxCount = 3
    MaxPods = 2
    Manifest <- MCManifest
    FilesCopied <- MCFilesCopied
    Root <- MCRoot
    Files <- MCFiles
    LogFiles <- MCLogFiles
    Paths <- MCPaths
    Dotted = {"a..b"}
    Hex <- MCHex
    MaxResults <- MCMax
    DefaultMaxResults = 3
    NoFile = NoFile
    Modes <- MCModes
    FlagCategories <- MCFlagCategories
    FlagTools <- MCFlagTools
    FlagSeconds <- MCFlagSeconds
    CallNames <- MCCallNames
    CallSeconds <- MCCallSeconds
    Second = 4
    IntMax = 127
    MaxSeconds = 5
    DefaultSeconds = 3
INVARIANTS
    DispatchTypeOK
    HiddenNeverRuns
    ListedIffCallable
    DeadlineAsPromised
    TextTypeOK
    WindowOfLog
    WindowStaysPut
    PagesCover
    RunsAsAsked
    AnswerIsWhole
    SearchFindsEnough
    ToldPathsOpen
    ReadsInTheReport
    LogsOfTheContainer
