SPECIFICATION SumSpec
CONSTANTS
  c1 = c1
  c2 = c2
  c3 = c3
  a1 = a1
  a2 = a2
  a3 = a3
  w1 = w1
  w2 = w2
  Absent = Absent
  CampaignId = {c1, c2, c3}
  Target = {g1}
  Fingerprint = {f1}
  Actor = {a1, a2, a3}
  Candidate = {h1, h2}
  h1 = h1
  h2 = h2
  NoCandidate = NoCandidate
  NoView = NoView
  DirectTargets <- CallerTargets
  Risks = {"low", "high"}
  Beginnings = {"open", "evidence_accumulating"}
  Cooldowns = {0, 2}
  MaxTime = 3
  s0 = s0
  s1 = s1
  s2 = s2
  d01 = d01
  d12 = d12
  d02 = d02
  m0 = m0
  m1 = m1
  m2 = m2
  teacher = teacher
  judge = judge
  k1 = k1
  k2 = k2
  u1 = u1
  n1 = n1
  n2 = n2
  n3 = n3
  x1 = x1
  cycle = cycle
SYMMETRY Symmetry
CHECK_DEADLOCK FALSE

INVARIANTS TypeOK AuthorizedMeansApproved DecisionsAreEffective OneOpenCampaignPerTarget RevisionIdentifiesRow ChampionIsSound LifecycleIsPackageable CyclesAreGoverned
PROPERTIES CooldownIsHonoured LineageIsFollowed ModelsAreGoverned
