SPECIFICATION Spec
CONSTANTS
  Processes = {p1, p2}
  ModuleIds = {m1}
  MaxKills = 0
INVARIANT
  SetupDirAnswersTruly
