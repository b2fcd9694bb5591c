CONSTANTS
  None = None
  Nobody = Nobody
  Files = {"f", "g"}
  Images = {"g"}
  Changing = {"f"}
  Tall = 3
  MaxMoves = 2
  MaxChanges = 3
  MaxDrops = 1
  MaxWork = 2
  a = a
  b = b
  c = c
  Nothing = Nothing
  Missing = Missing
  Procs = {"p1", "p2"}
  Stopped = {"p2"}
  Lines = {a, b, c}
  Modes <- MCModes
  HistSize = 2
  InitialFiles <- MCHistories
  Typed <- MCTyped
  MaxAppends = 2
  MaxLives = 3
  Kids = {"bg", "fg"}
  Background = {"bg"}
  Jobs <- MCJobs
  Pipe = 1
  MaxInput = 2
  Says = 2
SPECIFICATION SpecAll
CHECK_DEADLOCK FALSE
INVARIANTS
  
  ShownIsRight
  RecordsConsistent
PROPERTIES
  NoUpdateLost
  InstancesEnd
  CallsReturn
