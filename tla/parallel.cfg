CONSTANTS
  c1 = c1  c2 = c2  c3 = c3  w1 = w1  w2 = w2  s1 = s1  s2 = s2  s3 = s3
  Callers = {c1, c2}
  Workers = {w1, w2}
  JobsPerWorker = 1
  MinItems = 2
  Sizes = {1, 3}
  Scratches = {s1, s2, s3}
  MaxCalls = 2
SPECIFICATION FairSpec
INVARIANTS CallsAreLoops ErrorsAreReturned ScratchIsPrivate
PROPERTIES EveryCallReturns
CHECK_DEADLOCK FALSE
