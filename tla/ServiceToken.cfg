\* Three requests under the fairness of the event loop; a token that outlives
\* the margin and one that does not.
CONSTANTS
  Requests = {r1, r2, r3}
  Lives = {1, 3}
  Margin = 1
  Fallback = 2
  ExplicitUrl = FALSE
  MaxClock = 3
  None = None
SPECIFICATION FairSpec
INVARIANTS
  TypeOK
  SharedIsUnderWay
PROPERTIES
  CachedTokenValid
  EveryCallAnswered
