\* Tokens of a person and of two clients, on both routes, with every check
\* but the expiry at the Provider SDX API, which is off by default there.
CONSTANTS
  ann = ann
  bob = bob
  login = login
  Ann = Ann
  Wide = Wide
  sdx = sdx
  other = other
  saSdx = saSdx
  saOther = saOther
  read = read
  write = write
  pz = pz
  Users = {ann, bob}
  Names = {login, Ann, Wide, saSdx, saOther}
  Clients = {sdx, other}
  SdxClient = sdx
  Allowed = {sdx}
  ServiceAccount <- Accounts
  Unsendable = {Wide}
  Tokens <- Issued
  Scopes = {read, write}
  ChecksScopes = TRUE
  ChecksExpiry = FALSE
  ChecksSignature = TRUE
  Audiences = {pz}
  None = None
SPECIFICATION Spec
INVARIANTS
  TypeOK
  ActsAsHolder
  EntitledServed
