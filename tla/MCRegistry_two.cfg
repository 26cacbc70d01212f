\* Commands that overlap, two at a time.
\* An unreadable registry stops every command.
CHECK_DEADLOCK FALSE
SPECIFICATION Spec
CONSTANTS
  Procs = {p1, p2}
  Agents = {a1, a2}
  Entries = {e1}
  Inodes = {i1, i2, i3, i4}
  NoEntry = NoEntry
  NoFile = NoFile
  Empty = Empty
  Torn = Torn
  NoJob = NoJob
SYMMETRY Sym
INVARIANT
  IInv
PROPERTIES
  AloneIsSound
