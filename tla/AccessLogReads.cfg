SPECIFICATION Spec
CONSTANTS
  p1 = p1
  p2 = p2
  t2 = t2
  e1 = e1
  e2 = e2
  e3 = e3
  e4 = e4
  ann = ann
  eve = eve
  lab = lab
  pilot = pilot
  Process = {p1, p2}
  Thread = {t2}
  ProcessOf <- MCProcessOf
  Entry = {e1, e2, e3, e4}
  TsOf <- MCTsOf
  CidOf <- MCCidOf
  TenantOf <- MCTenantOf
  Second = 2
  MaxEntries = 2
  MaxBytes = 0
  Batch = 2
  MaxCuts = 1
  Caller = {ann, eve}
  Local = {ann, eve}
  GateSays <- MCGateSays
  StubHeader = {ann, eve}
  DevMode = TRUE
  Principal = {ann, eve}
  PrincipalOf <- MCPrincipalOf
  Scope <- MCScope
  Limit = 2
  Window = 2
  Day = 5
  PageSize = 1
  Asks <- MCAsks
  Home = p1
  StartClock = 5
  MaxClock = 8
INVARIANTS
  AdminTypeOK
  RateIsBounded
  ReadsAreAudited
  WalkIsComplete
PROPERTIES
  NoRowTwice
CHECK_DEADLOCK FALSE
