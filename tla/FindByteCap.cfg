SPECIFICATION StoreSpec
CONSTANTS
  p1 = p1
  p2 = p2
  t1 = t1
  t2 = t2
  t3 = t3
  e1 = e1
  e2 = e2
  e3 = e3
  e4 = e4
  e5 = e5
  pilot = pilot
  Process = {p1}
  Thread = {t1}
  ProcessOf <- MCProcessOf
  Entry = {e1, e2, e3, e4, e5}
  TsOf <- MCTsOf
  CidOf <- MCCidOf
  TenantOf <- MCTenantOf
  Second = 2
  MaxEntries = 4
  MaxBytes = 3
  Batch = 2
  MaxCuts = 0
INVARIANTS
  LogIsKept
CHECK_DEADLOCK FALSE
