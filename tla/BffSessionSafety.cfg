\* Two browsers, four overlapping requests; tokens and logins expire in a tick.
CONSTANTS
  Requests = {r1, r2, r3, r4}
  Browsers = {b1, b2}
  LoginTTL = 1
  Lives = {1}
  Documents = {"known", "unusable", "failed"}
  MaxClock = 1
  None = None
  Keep = Keep
SPECIFICATION Spec
SYMMETRY Symmetry
INVARIANTS
  TypeOK
  CodeSentOnce
  SessionInStartingBrowser
PROPERTIES
  ServedWhileSignedIn
  RefusedCallbackKeepsLogin
