SPECIFICATION LifeFairSpec
CONSTANTS
    c1 = c1
    c2 = c2
    p1 = p1
    p2 = p2
    NoPod = NoPod
    NoCall = NoCall
    Calls <- MCCalls
    Pods <- MCPods
    Deadlined <- MCCalls
    Faults <- MCFaults
    Transports <- MCBoth
    MaxSignals = 2
INVARIANTS
    StdioExitLeavesNoPod
PROPERTIES
    SignalStopsServing
