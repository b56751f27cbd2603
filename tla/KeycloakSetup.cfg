\* Three runs of the script over two environments that share the realm.
CONSTANTS
  e1 = e1  e2 = e2  f1 = f1  f2 = f2  o1 = o1  o2 = o2  a1 = a1  a2 = a2  x1 = x1  x2 = x2  w1 = w1
  Runs = {r1, r2, r3}
  MaxOverlap = 2
  LateOverlap = FALSE
  ClientIds <- MCClientIds
  EnvFiles = {f1, f2}
  Origins = {o1, o2}
  Audiences = {a1, a2}
  AudienceScopes = {x1, x2}
  WIDGET_SCOPES <- MCScopes
  Configs <- MCConfigs
  Priors <- MCPriors
  Torn = Torn
  None = None
SPECIFICATION Spec
SYMMETRY Symmetry
INVARIANTS
  TypeOK
  Converged
  RerunKeepsWorking
PROPERTIES
  RefusedOnlyIfMet
