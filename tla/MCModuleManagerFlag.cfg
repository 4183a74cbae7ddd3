SPECIFICATION Spec
CONSTANTS
  o1 = o1
  o2 = o2
  c1 = c1
  c2 = c2
  None = None
  Workers = {w1}
  Gate = "flag"
  ModuleIds <- MCIds
  ModuleObjects <- MCObjects
  CodeLibs <- MCCodeLibs
  DexFiles <- MCDexFiles
  Inputs <- MCFoundInputs
INVARIANT
  NullMeansNoCodelib
CHECK_DEADLOCK FALSE
