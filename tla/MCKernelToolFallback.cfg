SPECIFICATION ToolSpec
CONSTANTS
    t1 = t1
    p1 = p1
    p2 = p2
    NoPod = NoPod
    NoCall = NoCall
    Tools <- MCTools
    Calls <- MCCalls
    Pods <- MCPods
    Deadlined <- MCCalls
    Faults <- MCFaults
INVARIANTS
    FileOnlyIfMissing
