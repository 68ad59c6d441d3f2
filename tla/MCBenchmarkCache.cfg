SPECIFICATION FairSpec
CONSTANTS
  None = None
  q1 = q1
  q2 = q2
  q3 = q3
  i1 = i1
  i2 = i2
  Queries = {q1, q2, q3}
  Asked <- MCAsked
  Publications = {i1}
  LocalPublications = {i1}
  InvalidationScopes <- MCScopes
  Ttl = 2
  MaxLoad = 0
  MaxNow = 3
INVARIANTS TypeOK CacheSound
PROPERTIES EveryCallAnswered AnswerAgeBounded
CHECK_DEADLOCK FALSE
