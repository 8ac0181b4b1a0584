CONSTANTS
  t1 = t1
  t2 = t2
  t3 = t3
  e1 = e1
  e2 = e2
  e3 = e3
  Null = Null
  Threads <- MCThreads
  Entries <- MCEntries
  Owner <- MCOwner
  Hash <- MCHash
  Slots = {0, 1}
  Tags = {0, 1}
  NrJoins = 2
  MaxFound = 1
SPECIFICATION JoinSpec
INVARIANTS
  InsertedIsFound
  ChainsAreLinked
  TagsAreExact
  SizedThenComplete
  SameMeeting
PROPERTY EveryJoinEnds
