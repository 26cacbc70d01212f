\* One process with two concurrent calls, time, and a fault.
SPECIFICATION Spec
CONSTANTS
  Threads = {t1, t2}
  Procs = {p1}
  ProcOf <- OneProc
  Calls <- AllCalls
  Contents <- Short
  MaxKeys = 2
  MaxValue = 2
  MaxTotal = 2
  TTL = 1
  MaxClock = 2
  MaxFaults = 1
  p1 = p1
  a = a
  Chunks = {a}
  Keys = {k1, k2}
  MetaSize = 1
  Missing = Missing
  NoStamp = NoStamp
  NoAnswer = NoAnswer
  NoOp = NoOp
  NoKey = NoKey
  NoStore = NoStore
SYMMETRY Sym
INVARIANT
  TypeOK
PROPERTY
  ImplementsAgentMemory
