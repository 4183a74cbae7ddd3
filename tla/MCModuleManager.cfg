SPECIFICATION FairSpec
CONSTANTS
  o1 = o1
  o2 = o2
  c1 = c1
  c2 = c2
  None = None
  Workers = {w1}
  Gate = "returned"
  ModuleIds <- MCIds
  ModuleObjects <- MCObjects
  CodeLibs <- MCCodeLibs
  DexFiles <- MCDexFiles
  Inputs <- MCInputs
INVARIANTS
  TypeOK
  DexFilesPartitioned
  SymbolsCoverApps
  EnvironmentsBelongToModules
  WorkersNeverCrash
  NullMeansNoCodelib
  InitializationVerdict
PROPERTIES
  PublishedIsStable
  InitializeEnds
  ProvidesCodelibs
CHECK_DEADLOCK FALSE
