SPECIFICATION PackagingSpec
CONSTANTS
  k = k
  q1 = q1
  q2 = q2
  other = other
  Case = {k, q1, q2}
  track <- TrackOfCase
  Failed = {k, q1, q2}
  MaxCases = 8
  MinPolicyCases = 2
  MaxExecutions = 1
  MaxRunRounds = 3
  MaxRounds = 3
  Version = {"base", "evolved"}
  Base = "base"
  Evolved = "evolved"
  Good = {"evolved"}
  Process = {p1}
  Outsiders = FALSE
  MaxStops = 2
  Unbounded = Unbounded
  MaxRev = 2
  s1 = s1
  s2 = s2
  m1 = m1
  e1 = e1
  x1 = x1
  Nowhere = Nowhere
CHECK_DEADLOCK FALSE
PROPERTY RunIsPackaged
