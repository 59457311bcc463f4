SPECIFICATION BindingSpec
CONSTANTS
  prod = prod
  attr = attr
  dec = dec
  x1 = x1
  x2 = x2
  x3 = x3
  x4 = x4
  vague = vague
  Actor <- AllActors
  Target <- AllIndexes
  Fingerprint <- AllIndexes
  Candidate <- AllIndexes
  NoCandidate = NoCandidate
  NoHead = NoHead
  NoCampaign = NoCampaign
  NoDecision = NoDecision
  NoSignal = NoSignal
  NoReceipt = NoReceipt
  producer = prod
  attributor <- AttributorOf
  conclusive <- ConclusiveOf
  decider <- DeciderOf
  Ingestors <- Planner
  StopOnReady = TRUE
  Worker = {w1}
  MaxGenerations = 3
  Evaluators <- OneEvaluator
  CampaignId = {c1, c2}
  SignalId = {s1, s2}
  ReceiptId = {r1, r2, vague}
  DecisionId = {d1, d2}
  MaxRollbacks = 2
  MaxHolds = 2
  MaxCampaigns = 2
  MaxPairs = 4
  MaxNonImproving = 2
  Budgets = {1, 2}
  InitialPairs = {1}
  Generic = FALSE
  Absent = Absent
  t1 = t1
  t2 = t2
  train = train
  try = try
  v0 = v0
  v1 = v1
  v2 = v2
  v3 = v3
  kept1 = kept1
  kept2 = kept2
  extra = extra
CHECK_DEADLOCK FALSE
SYMMETRY SumSymmetry
INVARIANT TrainingFollowsIntent
