SPECIFICATION FairSpec
CONSTANTS
  s1 = s1
  s2 = s2
  Offset = Offset
  None = None
  Value <- MCValue
  Threads = {t1, t2, t3}
  Signatures <- MCSignatures
INVARIANTS
  TypeOK
  IndexSettles
PROPERTIES
  IndexNeverReverts
  CallsReturn
  AnswersAsPromised
CHECK_DEADLOCK FALSE
