CONSTANTS
    Code <- MCCode
    RetAddrs <- MCRetAddrs
    StackTop = 10
    MaxDepth = 3
    MaxExec = 3
    MaxCalls = 5
SPECIFICATION Spec
INVARIANT TypeOK
INVARIANT CapturedFrameRight
