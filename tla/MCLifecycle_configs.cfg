\* One project, two runtimes always selected, releases 1 and 2, failures.
SPECIFICATION Spec
CONSTANTS
  Places = {proj}
  Project = proj
  Runtimes = {r1, r2}
  TargetSets <- AllRuntimes
  Versions = {1, 2}
  BuildKinds = {"binary", "subagent"}
  Released = {1, 2}
  Breakable <- AllConfigs
  MayFail = TRUE
  None = None
  Unknown = Unknown
  Torn = Torn
  Edited = Edited
  NoCmd = NoCmd
SYMMETRY Sym
INVARIANTS
  NoDanglingEntry
  RegistryTruthful
PROPERTIES
  UntrackedOnlyWhenGone
