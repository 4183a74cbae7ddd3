SPECIFICATION Spec
CONSTANTS
  None = None
  CString <- MCString
  Inputs <- MCInputs
INVARIANTS
  TypeOK
  SignatureReadAsDeclared
  TypesComeWhole
CHECK_DEADLOCK FALSE
