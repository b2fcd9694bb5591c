CONSTANTS
  dir = dir
  pv = pv
  Loadables <- Both
  Previews <- OnePreview
  Timeouts <- TwoTimeouts
  Delays <- TwoDelays
  Slack = 0
  StepBack = 1
  Far = 5
  MaxLoads = 2
  MaxChanges = 1
SPECIFICATION FairSpec
INVARIANTS
  
  ReloadsKeepDistance

  
