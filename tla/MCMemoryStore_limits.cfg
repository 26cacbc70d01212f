\* Two processes without a common lock: the limits on keys and bytes.
SPECIFICATION Spec
CONSTANTS
  Threads = {t1, t2}
  Procs = {t1, t2}
  ProcOf <- OwnProc
  Calls <- Changes
  Contents <- Short
  MaxKeys = 1
  MaxValue = 1
  MaxTotal = 2
  TTL = 0
  MaxClock = 0
  MaxFaults = 0
  p1 = p1
  a = a
  Chunks = {a}
  Keys = {k1, k2, k3}
  MetaSize = 1
  Missing = Missing
  NoStamp = NoStamp
  NoAnswer = NoAnswer
  NoOp = NoOp
  NoKey = NoKey
  NoStore = NoStore
SYMMETRY KeySym
INVARIANTS
  KeysOvershoot
  BytesOvershoot
