\* Two runs on one tag, one run again.
CONSTANTS
  MaxRuns = 2
  Refs = {"v1"}
  Kind <- OneKind
  Gates <- MCGates
  Needs <- MCNeeds
  MaxReruns = 1
  MaxByHand = 0
SPECIFICATION Spec
CHECK_DEADLOCK FALSE
PROPERTY RunsEnd
