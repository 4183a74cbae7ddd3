SPECIFICATION FairSpec
CONSTANTS
  Signatures <- MCSignatures
  Inputs <- MCInputs
  MaxCode = 40
INVARIANTS
  TypeOK
  WovenAsIfStill
  FaultyPolicyVerdict
  NeverVisitsOwnCalls
  TerminatorLast
  OutsCoverArguments
  CodelibBeforeUseApart
PROPERTIES
  CodeOnlyAdded
  PassesEnd
CHECK_DEADLOCK FALSE
