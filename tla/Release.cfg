SPECIFICATION BothSpec
CONSTANTS
  up0 = up0
  up1 = up1
  hold1 = hold1
  back2 = back2
  done2 = done2
  judge = judge
  observer = observer
  r1 = r1
  r2 = r2
  Plan = Plan
  CampaignId = {c1, c2}
  LastStage = 2
  traffic <- TrafficOf
  NoStage = NoStage
  NoHead = NoHead
  NoCampaign = NoCampaign
  Decision <- AllDecisions
  stageOf <- StageOf
  action <- ActionOf
  Target <- AllTargets
  Fingerprint <- AllSubjects
  Candidate <- AllSubjects
  NoCandidate = NoCandidate
  Actor <- AllActors
  Worker = {w1, w2}
  maker <- MakerOf
  producer <- ProducerOf
  Crashes = TRUE
  closable = {Plan}
  s1 = s1
  s2 = s2
  Missing = Missing
  MaxPairs = 3
SYMMETRY Symmetry
CHECK_DEADLOCK FALSE
INVARIANTS MovesWereApproved StagesWereEarned DatabasesAgree VerdictsAreEarned
