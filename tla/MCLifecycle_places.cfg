\* A project and the global place: local, remote and file-only installs that do
\* not fail.
SPECIFICATION Spec
CONSTANTS
  Places = {proj, global}
  Project = proj
  Runtimes = {r1}
  TargetSets <- AllRuntimes
  Versions = {1, 2}
  BuildKinds = {"binary", "subagent", "fileOnly"}
  Released = {1, 2}
  Breakable = {}
  MayFail = FALSE
  None = None
  Unknown = Unknown
  Torn = Torn
  Edited = Edited
  NoCmd = NoCmd
INVARIANTS
  IInv
  RegistryTruthful
PROPERTY
  EditedFileKept
