\* Two commands at once, one hand edit, and a directory that goes away.
\* A file broken by the last hand edit stops every command.
CHECK_DEADLOCK FALSE
SPECIFICATION SettingsSpec
SYMMETRY Sym
CONSTANTS
  Procs = {p1, p2}
  p1 = p1  p2 = p2
  banana = banana  n1 = n1  sub = sub  link = link
  blank = blank  odd = odd  t1 = t1  minus = minus  dot = dot
  compiled = compiled
  Settable <- MCChoices
  HandEdits <- MCHandEdits
  Compiled <- MCCompiled
  Default <- MCDefault
  Illegal <- MCIllegal
  Negative = {minus}
  Dangling = {link, sub}
  MaxEdits = 1
  Unset = Unset
  NoFile = NoFile
  Broken = Broken
  Denied = Denied
INVARIANTS
  SettingsIInv
  ShownIsEnforced
  NeverWiderThanGiven
PROPERTIES
  KeepsOtherSettings
