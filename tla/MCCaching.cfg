CONSTANTS
  q1 = q1
  q2 = q2
  None = None
  Waiting = Waiting
  Queries = {q1, q2}
  Answers <- MCAnswers
  MinTime = 2
  MaxTime = 3
  NegativeTime = 1
  Threshold = 1
  Prefetching = TRUE
  Redis = TRUE
  BufferCap = 1
  MaxAge = 3
SPECIFICATION CachingSpec
INVARIANTS
  CachingTypeOK
  
  ServedTTLsHonest
