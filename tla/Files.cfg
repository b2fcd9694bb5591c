CONSTANTS
  None = None
  File = "file"
  Root = "/"
  Dirs = {"/", "a", "b", "a/c"}
  Up <- MCUp
  Inode <- MCInode
  Unwatched = {}
  NoEntry = {"a/c"}
  Columns = 3
  MaxCalls = 2
  a = a
  b = b
  d = d
  h = h
  l = l
  a2 = a2
  a3 = a3
  Entries <- MCEntries
  Name <- MCName
  Ino <- MCIno
  Hidden = {h}
  Folders = {d, l}
  Links = {l}
  Rank <- MCRank
  Salts = {1}
  Disks <- MCDisks
  ReadOrder <- MCReadOrder
  Filters <- MCFilters
  Searches <- MCSearches
  Heights = {2, 3}
  Scrolloffs = {1}
  Selectable = {"x"}
  Orders <- MCOrders
  Steps <- MCSteps
  Typed <- MCTyped
  MaxLen <- MCMaxLen
  Files <- MCFiltered
  Names <- MCMatched
  Garbage = {0, 5}
  Digits = {"0", "1", "2"}
  Spaces = {" "}
  Upper = {"A"}
  Letters = {"a", "b", "s", "k", "x"}
  Fold <- MCFold
  Value <- MCValue
  Unit = 4
  Changing = {"f", "t"}
  Unreadable = {"u"}
  Levels = {0, 2}
  TrimAbove = 1
  MaxChanges = 2
  MaxTime = 3
  MaxLoads = 2
  Home <- MCHome
  Pwd <- MCPwd
  BufSize = 12
  Behind <- MCBehind
SPECIFICATION SpecAll
CHECK_DEADLOCK FALSE
INVARIANTS
  ViewConsistent
  ProcessFollows
  
  PanesFollowCursor
  LoadKeepsPlace
  MatchesAsWritten
  
  ReadingIsExact
PROPERTIES
  MovesKeepPlace
