SPECIFICATION Spec
CONSTANTS
  Signatures <- MCSignatures
  Inputs <- MCInputs
  MaxCode = 40
INVARIANTS
  CodelibBeforeUse
CHECK_DEADLOCK FALSE
