\* Two installs, two commands that fail and one foreign write.
\* The commands end.
CHECK_DEADLOCK FALSE
SPECIFICATION Spec
SYMMETRY Sym
CONSTANTS
  Procs = {p1, p2}
  c1 = c1
  c2 = c2
  v1 = v1
  Values = {c1, c2, v1}
  Setups <- MCSetups
  Entries <- MCEntries
  Requests <- MCRequests
  MaxFaults = 2
  MaxForeign = 1
  Unset = Unset
  Absent = Absent
  Removal = Removal
INVARIANTS
  AddsLeaveAnEntry
  TomlEditExact
  TomlEditsSettle
PROPERTIES
  CliLosesNothing
  FailureKeepsACopy
