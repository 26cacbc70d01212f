\* Two publishers, and one installer or two; four builds, two at a time or in turn.
\* The commands end.
CHECK_DEADLOCK FALSE
SPECIFICATION MCSpec
SYMMETRY Sym
CONSTANTS
  Publishers = {p1, p2}
  Installers = {i1, i2}
  i2 = i2
  a1 = a1
  a2 = a2
  Agents = {a1, a2}
  Repo = Repo
  Versions = {1, 2}
  Orders <- MCOrders
  Handmade <- MCHandmade
  PageSize = 1
  MaxRetries = 1
  MaxBuilds = 2
  MaxFaults = 2
  Plain = Plain
  Latest = Latest
  None = None
  Damaged = Damaged
  Torn = Torn
  Defs = {d1, d2, d3, d4}
  Limits = {0, 2}
INVARIANTS
  ReleaseIsAsTagged
  OnlyVerifiedRuns
  InstallsTheLatest
  BuildAllSound
