SPECIFICATION Spec
CONSTANTS
  r1 = r1
  r2 = r2
  r3 = r3
  r4 = r4
  r5 = r5
  r6 = r6
  l1 = l1
  p1 = p1
  p2 = p2
  s1 = s1
  s2 = s2
  sc = sc
  sr = sr
  sn = sn
  ss = ss
  so = so
  TornLine = TornLine
  GarbledLine = GarbledLine
  StrayLine = StrayLine
  NoLine = NoLine
  Submissions = {s1, s2}
  Quotes <- S2QuotesS1
  IndexLags = FALSE
  Requests = {r1, r2}
  Replays = {p1}
  Legacy = {}
  SidOf <- RetrySids
  RouterRejects = {}
  Refuses = {}
  Unspawnable = {}
  Splits = {}
  Strays = {}
  Outgrows = {}
  CutsCharacters = FALSE
  FaultKinds = {"gh"}
  MaxFaults = 1
INVARIANTS
  DedupIsOwnIssue
CHECK_DEADLOCK FALSE
