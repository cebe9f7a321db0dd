SPECIFICATION Spec
CONSTANTS
  Keys <- MCKeys
  v1 = v1
  v2 = v2
  Values = {v1, v2}
  Writes <- MCWrites
  Paths <- MCPaths
  NoValue = noValue
  MaxEntries = 3
  MaxCommits = 2
  ListLengths = {1, 2, 3, 127, 128, 129}
INVARIANTS
    TwoEdgesAccepted
