\* Two commands at once: Save's atomicity.
SPECIFICATION Spec
CONSTANTS
  Procs = {p1, p2}
  Agents = {a1, a2}
  Entries = {e1}
  Inodes = {i1, i2, i3, i4, i5}
  NoEntry = NoEntry
  NoFile = NoFile
  Empty = Empty
  Torn = Torn
  NoJob = NoJob
SYMMETRY Sym
INVARIANT
  AlwaysReadable
