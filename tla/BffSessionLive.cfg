\* Two browsers, three requests, under the fairness of the event loop.  The
\* discovery document is of use or not to be had.
CONSTANTS
  Requests = {r1, r2, r3}
  Browsers = {b1, b2}
  LoginTTL = 1
  Lives = {1}
  Documents = {"known", "failed"}
  MaxClock = 1
  None = None
  Keep = Keep
SPECIFICATION FairSpec
PROPERTIES
  EveryRequestAnswered
  ImplementsSignIn
