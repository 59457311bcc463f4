SPECIFICATION Spec
CONSTANTS
  prod = prod
  attr = attr
  dec = dec
  x1 = x1
  x2 = x2
  x3 = x3
  x4 = x4
  vague = vague
  Actor <- AllActors
  Target <- AllIndexes
  Fingerprint <- AllIndexes
  Candidate <- AllIndexes
  NoCandidate = NoCandidate
  NoHead = NoHead
  NoCampaign = NoCampaign
  NoDecision = NoDecision
  NoSignal = NoSignal
  NoReceipt = NoReceipt
  producer = prod
  attributor <- AttributorOf
  conclusive <- ConclusiveOf
  decider <- DeciderOf
  Ingestors <- Planner
  StopOnReady = TRUE
  Worker = {w1, w2}
  MaxGenerations = 2
  Evaluators <- OneEvaluator
  CampaignId = {c1}
  SignalId = {s1}
  ReceiptId = {r1}
  DecisionId = {d1}
  MaxRollbacks = 2
  MaxHolds = 2
  MaxCampaigns = 1
  MaxPairs = 2
  MaxNonImproving = 1
  Budgets = {1}
  InitialPairs = {1}
  Generic = FALSE
CHECK_DEADLOCK FALSE
INVARIANTS BoundCampaignsPassTheAudit
