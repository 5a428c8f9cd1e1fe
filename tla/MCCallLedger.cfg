CONSTANTS
  Bases <- MCBases
  MaxPrefix = 2
  Tokens <- MCTokens
  MaxTokens = 2
  MaxCalls = 3

SPECIFICATION Spec

INVARIANT TypeOK
INVARIANT PositionsExact
PROPERTY LedgerRefinesAbstract
