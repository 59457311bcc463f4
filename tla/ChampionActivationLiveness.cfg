SPECIFICATION FairSpec
CONSTANTS
  s0 = s0
  s1 = s1
  s2 = s2
  d01 = d01
  d12 = d12
  d02 = d02
  a1 = a1
  a2 = a2
  a3 = a3
  CampaignId = {c1}
  Snapshot <- AllSnapshots
  Decision <- OneDecision
  Target <- Pairs
  Fingerprint <- OneDecision
  Candidate <- OneDecision
  Actor <- AllActors
  NoCandidate = None
  NoDecision = None
  NoSnapshot = NoSnapshot
  NoCampaign = NoCampaign
  base <- baseOf
  sel <- selOf
  maker <- makerOf
  Worker = {w1}
  OperatorsClose = FALSE
CHECK_DEADLOCK FALSE
PROPERTIES ActivationCompletesCampaign
