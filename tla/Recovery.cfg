SPECIFICATION FairSpec
CONSTANTS
  None = None
  made = made
  judge1 = judge1
  judge2 = judge2
  judge3 = judge3
  judge4 = judge4
  a1 = a1
  a2 = a2
  a3 = a3
  a4 = a4
  b1 = b1
  b2 = b2
  b3 = b3
  b4 = b4
  p0 = p0
  p1 = p1
  e1 = e1
  e2 = e2
  c1 = c1
  c2 = c2
  c3 = c3
  w1 = w1
  k = k
  q1 = q1
  q2 = q2
  up0 = up0
  back1 = back1
  plan = plan
  observer = observer
  r1 = r1
  r2 = r2
  s1 = s1
  d1 = d1
  cert1 = cert1
CHECK_DEADLOCK FALSE
PROPERTIES PolicyCallsAreRecovered  RecommendedIsRolledBack ProgramCallsAreRecovered LaboratoriesAreRepeatable
