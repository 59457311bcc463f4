SPECIFICATION SumSpec
CONSTANTS
  k = k
  q1 = q1
  q2 = q2
  other = other
  Case = {k, q1, q2, other}
  track <- TrackOfCase
  Failed = {k, q1, q2}
  MaxCases = 8
  MinPolicyCases = 2
  MaxExecutions = 1
  MaxRunRounds = 3
  MaxRounds = 3
  Version = {"base", "evolved", "foreign"}
  Base = "base"
  Evolved = "evolved"
  Good = {"evolved"}
  Process = {p1, p2}
  Outsiders = TRUE
  MaxStops = Unbounded
  Unbounded = Unbounded
  MaxRev = 2
  s1 = s1
  s2 = s2
  m1 = m1
  e1 = e1
  x1 = x1
  Nowhere = Nowhere
SYMMETRY Symmetry
CHECK_DEADLOCK FALSE
INVARIANTS SnapshotsAreEarned TerminalRoundsAgree EverythingVerifies BatchesAreBounded PackagesAreDerived SelectionIsEarned
