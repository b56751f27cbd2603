CONSTANTS
  Requests = {r1, r2, r3}
  WidgetIds = {w1, w2}
  Keys = {k1}
  alice = alice
  bob = bob
  Subjects = {alice, bob}
  title = title
  state = state
  Fields = {title, state}
  a = a
  b = b
  Values = {a, b}
  k1 = k1
  None = None
  Bad = Bad
  MaxClock = 1
  Calls <- ConditionalCalls
  Unrecordable <- NoWidth
SPECIFICATION Spec
SYMMETRY Symmetry
PROPERTY
  IfMatchGuardsWrite
