\* Two tabs and two users of one browser.  The tabs end when the bounds are reached.
CONSTANTS
  Tabs = {t1, t2}
  Subjects = {s1, s2}
  MaxChanges = 1
  MaxMoves = 2
  None = None
SPECIFICATION Spec
CHECK_DEADLOCK FALSE
INVARIANTS
  TypeOK
  NameWasSignedIn
  WidgetsShown
PROPERTIES
  GuardAsksAnew
  NavigationSettles
