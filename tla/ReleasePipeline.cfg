\* Two runs on a signed tag, a lightweight tag and a tag without v, one run
\* again, one release created by hand.  Runs end, and runs are bounded.
CONSTANTS
  MaxRuns = 2
  Refs = {"v1", "v2", "x1"}
  Kind <- MCKind
  Gates <- MCGates
  Needs <- MCNeeds
  MaxReruns = 1
  MaxByHand = 1
SPECIFICATION Spec
CHECK_DEADLOCK FALSE
INVARIANTS OneReleaseOrOverlooked GreenIsVetted
PROPERTY PublishesOnlyVetted
