CONSTANTS
  t1 = t1
  t2 = t2
  t3 = t3
  w1 = w1
  w2 = w2
  w3 = w3
  NoWork = NoWork
  Threads <- ThreeThreads
  Works <- ThreeWorks
  Nprocs = 2
  MaxThreads = 3
  MaxResizes = 3
SPECIFICATION FairSpec
INVARIANTS
  PoolConsistent
  NoWorkerMissesWakeup
PROPERTIES
  PoolSpec
  PoolSettles
