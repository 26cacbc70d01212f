\* One abby process, a foreign writer that never stops, a file that may break.
SPECIFICATION FairSpec
CONSTANTS
  Editors = {e1}
  n1 = n1
  n2 = n2
  c1 = c1
  c2 = c2
  x1 = x1
  r1 = r1
  Names = {n1, n2}
  Commands = {c1, c2}
  Extras = {NoExtra, x1}
  Rests = {NoRest, r1}
  NoExtra = NoExtra
  NoRest = NoRest
  NoEntry = NoEntry
  Absent = Absent
  Broken = Broken
  NoJob = NoJob
  Foreign <- MCForeignBroken
PROPERTIES
  SuccessMeansApplied
  ApplyEnds
