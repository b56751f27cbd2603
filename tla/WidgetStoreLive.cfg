CONSTANTS
  Requests = {r1, r2, r3}
  WidgetIds = {w1, w2, w3}
  Keys = {k1}
  alice = alice
  bob = bob
  Subjects = {alice, bob}
  title = title
  state = state
  Fields = {title, state}
  a = a
  b = b
  Values = {a, b}
  k1 = k1
  None = None
  Bad = Bad
  MaxClock = 1
  Calls <- DuplicateCalls
  Unrecordable <- NoWidth
SPECIFICATION FairSpec
PROPERTY
  EveryRequestEnds
