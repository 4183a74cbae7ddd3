SPECIFICATION FairSpec
CONSTANTS
  Processes = {p1, p2, p3}
  ModuleIds = {m1}
  MaxKills = 1
INVARIANTS
  TypeOK
  AbortBlamesThePath
  ReadyMeansUsable
PROPERTIES
  OnceReadyOnlyRacersRefused
  SetupEnds
