CONSTANTS
    Bytes <- MCBytes
    MaxLen = 4
    Tokens <- MCTokens
    MaxCalls = 1
SPECIFICATION Spec
INVARIANT ReadMatchesSpec
