SPECIFICATION Spec
CONSTANTS
  r1 = r1
  r2 = r2
  r3 = r3
  r4 = r4
  r5 = r5
  r6 = r6
  l1 = l1
  p1 = p1
  p2 = p2
  s1 = s1
  s2 = s2
  sc = sc
  sr = sr
  sn = sn
  ss = ss
  so = so
  TornLine = TornLine
  GarbledLine = GarbledLine
  StrayLine = StrayLine
  NoLine = NoLine
  Submissions = {s1, sc, sr, ss, so}
  Quotes <- NoQuotes
  IndexLags = FALSE
  Requests = {r1, r2, r4, r5, r6}
  Replays = {p1}
  Legacy = {l1}
  SidOf <- TextSids
  RouterRejects = {sr}
  Refuses = {sc}
  Unspawnable = {}
  Splits = {ss}
  Strays = {ss}
  Outgrows = {so}
  CutsCharacters = TRUE
  FaultKinds = {"spawn", "gh", "disk", "crash"}
  MaxFaults = 2
INVARIANTS
  AtMostOneIssue
  RefusedStaysOut
PROPERTIES
  IsDelivery
CHECK_DEADLOCK FALSE
