SPECIFICATION BoundedSpec
CONSTANTS
  p0 = p0
  p1 = p1
  made = made
  e1 = e1
  e2 = e2
  e3 = e3
  judge1 = judge1
  judge2 = judge2
  judge3 = judge3
  judge4 = judge4
  a1 = a1
  a2 = a2
  a3 = a3
  a4 = a4
  b1 = b1
  b2 = b2
  b3 = b3
  b4 = b4
  Policy = {p0, p1}
  NoPolicy = NoPolicy
  base <- BaseOf
  promotable <- OnlyP1
  Evidence = {e1, e2, e3}
  NoEvidence = NoEvidence
  CampaignId = {c1, c2}
  NoCampaign = NoCampaign
  Nobody = Nobody
  Actor = {made, judge1, judge2, judge3, judge4, a1, a2, a3, a4, b1, b2, b3, b4}
  Target <- AllTargets
  Fingerprint <- AllCases
  Candidate <- AllCases
  NoCandidate = NoCandidate
  Worker = {w1, w2}
  team <- TeamOf
  creator <- CreatorOf
  judgeA <- FirstJudge
  judgeB <- SecondJudge
  approverOf <- ApproverOf
  authorizerOf <- AuthorizerOf
  executorOf <- ExecutorOf
  Submitted <- SomeCases
  closable = {"promotion"}
  askedAt <- AllAtOnce
  judgedAt <- OneLater
  MaxClock = 1
SYMMETRY Symmetry
CHECK_DEADLOCK FALSE
INVARIANTS RegistryVerifies HandsAreApart CompletedIsPackageable
PROPERTIES ImplementsGovernedChange
