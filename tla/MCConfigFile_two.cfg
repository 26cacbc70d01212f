\* Two abby processes and a foreign writer.
SPECIFICATION Spec
CONSTANTS
  Editors = {e1, e2}
  n1 = n1
  n2 = n2
  c1 = c1
  c2 = c2
  x1 = x1
  r1 = r1
  Names = {n1, n2}
  Commands = {c1}
  Extras = {NoExtra, x1}
  Rests = {NoRest, r1}
  NoExtra = NoExtra
  NoRest = NoRest
  NoEntry = NoEntry
  Absent = Absent
  Broken = Broken
  NoJob = NoJob
  Foreign <- MCForeign
SYMMETRY Sym
INVARIANTS
  BackupPredatesAbby
  IInv
PROPERTIES
  PreservesOthersWork
  AbsorbsOneChange
  GivesUpUnwritten
