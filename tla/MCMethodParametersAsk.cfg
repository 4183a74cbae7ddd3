SPECIFICATION Spec
CONSTANTS
  None = None
  CString <- MCString
  Inputs <- MCInputs
INVARIANT
  StringParamAsDeclared
CHECK_DEADLOCK FALSE
