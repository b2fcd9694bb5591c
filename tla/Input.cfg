CONSTANTS
  a = a
  b = b
  w = w
  q = q
  f1 = f1
  f2 = f2
  f3 = f3
  stop = stop
  rec = rec
  feed = feed
  leave = leave
  cmd = cmd
  None = None
  Normal = "normal"
  Input = "input"
  Visual = "visual"
  Keys <- MCKeys
  Digits = {0, 2}
  Esc = Esc
  Enter = Enter
  Printable = {a, b, w}
  Modes <- MCModes
  NewModes = {"late"}
  IsInput = {"input", "prompt"}
  Callbacks = {f1, f2, f3, stop, rec, feed, leave, cmd}
  Code <- MCCode
  OnEsc <- MCOnEsc
  OnReturn <- MCOnReturn
  OnChange <- MCOnChange
  InitialMaps <- MCMaps
  NewMaps <- MCNewMaps
  Scripts <- MCScripts
  Macros = {q}
  SuggestionDelay = 1
  ClearDelay = 10
  Fold <- MCFold
  Rank <- MCRank
  MaxKeys = 7
  MaxCalls = 1
  MaxNesting = 3
  Chars = {"x", " ", "."}
  Spaces = {" "}
  Puncts = {"."}
  Prompts <- MCPrompts
  MaxLen = 5
  Settable <- MCSettable
  Widths = {4, 5, 6, 7, 8}
SPECIFICATION Spec
CHECK_DEADLOCK FALSE
INVARIANTS
  InputConsistent
  KeysDoWhatTheyAsk
PROPERTIES
  MenuIsComplete
  
  SequenceEnds
  LineKeepsText
