SPECIFICATION Spec
CONSTANTS
  Lanes = 2
  Configs <- MCConfigs
  Junk = Junk
  Workers = {w1, w2}
  NrPartitions = 2
  Threads = {t1, t2}
  HashNumber <- MCHash
  HashBits = 2
  StackSize = 1
  TableSize = 1
  DequeChunk = 1
  NrDeques = 1
  MinBlock = 2
  vectorSize = 2
  UIntBits = 15
  SevenItems = 21
  Garbage = Garbage
  DispatcherRows = {12, 14, 16, 42}
  Engines = {"tectorwise", "typer", "dispatcher"}
  QueryNames <- MCQueryNames
  Databases <- MCDatabases
  FactRows = 3
INVARIANT TectorwiseAnswers
INVARIANT TyperAnswers
INVARIANT TyperKeepsAll
INVARIANT BlocksFit
 
