SPECIFICATION Spec
CONSTANTS
  s1 = s1
  s2 = s2
  Offset = Offset
  None = None
  Value <- MCValue
  Threads = {t1, t2}
  Signatures <- MCSignatures
INVARIANT
  IndexAnswersReal
CHECK_DEADLOCK FALSE
