SPECIFICATION FairPipeline
CONSTANTS
  o1 = o1
  o2 = o2
  c1 = c1
  c2 = c2
  w1 = w1
  w2 = w2
  None = None
  Gate = "returned"
  Period = 2
  Workers <- MCWorkers
  ModuleIds <- MCIds
  ModuleObjects <- MCObjects
  CodeLibs <- MCCodeLibs
  DexFiles <- MCDexFiles
  Inputs <- MCInputs
  Texts <- MCTexts
  Occurs <- MCOccurs
  Methods <- MCMethods
  Filterings <- MCFilterings
INVARIANTS
  PipelineTypeOK
  WovenAsSelected
  CountVerdict
PROPERTIES
  MethodsFinish
CHECK_DEADLOCK FALSE
