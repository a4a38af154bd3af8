SPECIFICATION FairSpec
CONSTANTS
  w1 = w1
  w2 = w2
  fixA = fixA
  fixB = fixB
  Runs = {w1, w2}
  Proposals = {fixA, fixB}
  Issues <- AllIssues
  Setups <- AllSetups
  FaultKinds = {"label", "comment", "model", "docker", "gh", "raise", "hang", "setup", "kill"}
  MaxFaults = 3
INVARIANTS
  TypeOK
  NoPrForRisky
  FixReadyIsTrue
  OutcomeIsVisible
  OnePrPerRun
  OnePrPerBranch
  AdviceHasItsVoices
  AdviceOnce
PROPERTIES
  VerdictStands
  EveryRunEnds
CHECK_DEADLOCK FALSE
