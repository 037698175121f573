SPECIFICATION Spec
CONSTANTS
  IBits = 5
  IntSetMax = 2
  StringMax = 2
  Sec = 2
  DefaultMaxRange = 1
  Dbs = {0, 1}
  MaxNow = 2
  MaxLen = 2
  MaxMemory = 220
  PolicyOf <- MCPolicyOf
  Suites <- MCZsets
  CommandsOf <- MCCommandsOf
  StartOf <- MCStartOf
  Bounded <- MCBounded
INVARIANT
  FastPathTransparent
