SPECIFICATION FairSpec
CONSTANTS
    c1 = c1
    c2 = c2
    p1 = p1
    p2 = p2
    NoPod = NoPod
    NoCall = NoCall
    Calls <- MCCalls
    Pods <- MCPods
    Deadlined <- MCDeadlined
    Faults <- MCAllFaults
INVARIANTS
    TypeOK
    NoSilentLeak
    OwnPodOnly
PROPERTIES
    NoDeleteUnderCommand
    DeadlinedCallsReturn
    KnownPodsDisappear
    OpenEndedPodsDisappear
