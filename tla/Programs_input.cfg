SPECIFICATION FairSpec
CONSTANTS
  Kids = {"bg", "fg"}
  Background = {"bg"}
  Jobs <- MCJobs
  Pipe = 1
  MaxInput = 2
  Says = 2
  Nobody = Nobody
PROPERTY InputIsSent
CHECK_DEADLOCK FALSE
