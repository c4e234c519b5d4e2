SPECIFICATION Pass1Spec
CONSTANTS
  Pass1Macro = {"A", "B"}
  Pass1Lines = 6
INVARIANT OneBranchPerChain
CHECK_DEADLOCK FALSE
