CONSTANTS
    Bytes <- MCBytes
    MaxLen = 4
    Tokens <- MCTokens
    MaxCalls = 1
SPECIFICATION Spec
INVARIANT TypeOK
INVARIANT AsciiReadExact
INVARIANT GuidFieldsMatch
